---- MODULE Spec2Model ----
(***************************************************************************)
(* ESP datagram engine of libipsec (esp_packet.c): the encrypt and decrypt *)
(* pipelines, the padding codec, the packet container and the per-SA       *)
(* anti-replay window they drive through esp_context_t.                    *)
(*                                                                         *)
(* Bytes are 0..255 and byte strings are sequences of bytes.  A 32-bit     *)
(* unsigned value is the pair <<hi, lo>> of its 16-bit halves, so that the *)
(* whole range 0..0xFFFFFFFF is represented exactly.                       *)
(***************************************************************************)
EXTENDS Integers, Sequences, FiniteSets, TLC

\* ------------------------------------------------------------ status_t
SUCCESS == "SUCCESS"
FAILED == "FAILED"
NOT_FOUND == "NOT_FOUND"
PARSE_ERROR == "PARSE_ERROR"
VERIFY_ERROR == "VERIFY_ERROR"

\* ------------------------------------------------------ next header values
IPPROTO_IPIP == 4
IPPROTO_IPV6 == 41
IPPROTO_NONE == 59

\* ------------------------------------------- sizes reported by the primitives
\* crypter->get_block_size(), crypter->get_iv_size(), signer->get_block_size()
BlockSize == 4
IvSize == 2
IcvSize == 2

\* Size of the anti-replay window in sequence numbers.
W == 64

\* Key material held by the crypter and by the signer of the SA.
CKey == 90
MKey == 165

\* ------------------------------------------------------------ bounds
\* Number of decrypt/encrypt calls in one behaviour.
MaxOps == 3

\* Number of decrypt calls in one behaviour of SpecMac.
MaxMacOps == 2

\* Number of decrypt calls in one behaviour of SpecWin.
MaxWinOps == 4

\* Number of encrypt and decrypt calls in one behaviour of SpecRT.
MaxRtOps == 3

\* Number of decrypt invocations in one behaviour of SpecConc.
MaxConcOps == 3

\* Number of decrypt calls in one behaviour of SpecLen.
MaxLenOps == 2

\* Number of decrypt calls in one behaviour of SpecPad.
MaxPadOps == 2

\* Number of decrypt calls in one behaviour of SpecErr.
MaxErrOps == 3

\* Number of container operations in one behaviour of SpecCont.
MaxContOps == 4

\* Number of encrypt invocations in one behaviour of SpecSeq.
MaxSeqOps == 3

\* Number of encrypt calls in one behaviour of SpecEnc.
MaxEncOps == 2

\* Every length of inner packet up to this one is encrypted in SpecEnc.
MaxPayloadLen == 6

\* ------------------------------------------------------------ u_int32_t
U32(n) == <<n \div 65536, n % 65536>>

U32Zero == <<0, 0>>

U32Max == <<65535, 65535>>

U32Lt(a, b) == a[1] < b[1] \/ (a[1] = b[1] /\ a[2] < b[2])

\* a + d modulo 2^32, for 0 <= d < 65536
U32Add(a, d) ==
  LET lo == a[2] + d
  IN  <<(a[1] + (lo \div 65536)) % 65536, lo % 65536>>

\* min(a - b, cap) for a >= b and cap <= 65536
U32SubCap(a, b, cap) ==
  LET d == IF a[1] - b[1] >= 2 THEN cap
           ELSE (a[1] - b[1]) * 65536 + a[2] - b[2]
  IN  IF d < cap THEN d ELSE cap

\* a - d for a >= d, 0 <= d < 65536
U32Sub(a, d) ==
  IF a[2] >= d THEN <<a[1], a[2] - d>> ELSE <<a[1] - 1, a[2] + 65536 - d>>

\* ------------------------------------------------------------ byte strings
Byte == 0..255

Take(s, n) == SubSeq(s, 1, n)

\* the byte string s with bit `bit` of its i-th byte inverted
FlipBit(s, i, bit) ==
  LET p == 2 ^ bit
      b == s[i]
  IN  [s EXCEPT ![i] = IF (b \div p) % 2 = 1 THEN b - p ELSE b + p]

\* bio_writer_t.write_uint32: four bytes, network byte order
write_uint32(v) ==
  <<v[1] \div 256, v[1] % 256, v[2] \div 256, v[2] % 256>>

\* bio_reader_t.read_uint32 on the first four bytes of s
read_uint32(s) == <<s[1] * 256 + s[2], s[3] * 256 + s[4]>>

\* ------------------------------------------------------------ primitives
\* crypter_t: a keyed, IV-dependent, length-preserving invertible transform
crypter_encrypt(plain, iv) ==
  [i \in 1..Len(plain) |->
     (plain[i] + CKey + iv[((i - 1) % Len(iv)) + 1] + i) % 256]

crypter_decrypt(cipher, iv) ==
  [i \in 1..Len(cipher) |->
     (cipher[i] + 1024 - CKey - iv[((i - 1) % Len(iv)) + 1] - i) % 256]

RECURSIVE WSum(_, _, _)
\* weighted checksum of d[1..n]; every weight is odd
WSum(d, n, j) ==
  IF n = 0 THEN 0
  ELSE (WSum(d, n - 1, j) + (2 * n + 1) * (2 * j - 1) * d[n]) % 256

\* signer_t: the signature of len bytes of the byte string d under the SA's
\* integrity key
signer_get_signature(d, len) ==
  [j \in 1..len |-> (MKey + 7 * j + WSum(d, Len(d), j)) % 256]

\* the ICV checked by the signer of the inbound SA
signer_icv(d) == signer_get_signature(d, IcvSize)

\* ------------------------------------------------------------ ip_packet_t
NULL == [present |-> FALSE, version |-> 0, encoding |-> <<>>]

\* ip_packet_create: the version is the first nibble, which must be 4 or 6
ip_packet_create(bytes) ==
  IF Len(bytes) >= 1 /\ (bytes[1] \div 16) \in {4, 6}
  THEN [present |-> TRUE, version |-> bytes[1] \div 16, encoding |-> bytes]
  ELSE NULL

\* ------------------------------------------------------------ esp_context_t
\* The anti-replay window of an inbound SA: the highest accepted sequence
\* number and the set of bitmap positions that are set; the bit of sequence
\* number s is at position highest - s, for positions 0..W-1.
InitialWindow == [highest |-> U32Zero, bitmap |-> {}]

\* check(seq)
verify_seqno(win, seq) ==
  /\ seq # U32Zero
  /\ \/ U32Lt(win.highest, seq)
     \/ /\ U32SubCap(win.highest, seq, W) < W
        /\ U32SubCap(win.highest, seq, W) \notin win.bitmap

\* commit(seq) dropping the bits of the window when it slides
set_authenticated_seqno_clears(win, seq) ==
  IF U32Lt(win.highest, seq)
  THEN [highest |-> seq, bitmap |-> {0}]
  ELSE LET p == U32SubCap(win.highest, seq, W)
       IN  [win EXCEPT !.bitmap = IF p < W THEN @ \cup {p} ELSE @]

\* commit(seq) taking seq as the highest sequence number whenever it differs
set_authenticated_seqno_moves_back(win, seq) ==
  IF seq # win.highest
  THEN LET d == U32SubCap(seq, win.highest, W)
       IN  [highest |-> seq,
            bitmap |-> {p + d : p \in {q \in win.bitmap : q + d < W}} \cup {0}]
  ELSE [win EXCEPT !.bitmap = @ \cup {0}]

\* commit(seq)
set_authenticated_seqno(win, seq) ==
  IF U32Lt(win.highest, seq)
  THEN LET d == U32SubCap(seq, win.highest, W)
       IN  [highest |-> seq,
            bitmap |-> {p + d : p \in {q \in win.bitmap : q + d < W}} \cup {0}]
  ELSE LET p == U32SubCap(win.highest, seq, W)
       IN  [win EXCEPT !.bitmap = IF p < W THEN @ \cup {p} ELSE @]

\* next_seqno(): the egress cursor; ok is FALSE when the cursor has cycled
next_seqno(cur) ==
  IF cur = U32Max
  THEN [ok |-> FALSE, seqno |-> cur, cursor |-> cur]
  ELSE [ok |-> TRUE, seqno |-> U32Add(cur, 1), cursor |-> U32Add(cur, 1)]

\* ------------------------------------------------------------ esp_packet_t
\* private_esp_packet_t: the raw packet data, the decoded payload and the
\* next header info
esp_packet_create_internal(data) ==
  [packet |-> data, payload |-> NULL, next_header |-> IPPROTO_NONE]

esp_packet_create_from_packet(data) == esp_packet_create_internal(data)

esp_packet_create_from_payload(payload) ==
  [packet |-> <<>>,
   payload |-> payload,
   next_header |-> IF payload.present
                   THEN (IF payload.version = 4 THEN IPPROTO_IPIP
                                                ELSE IPPROTO_IPV6)
                   ELSE IPPROTO_NONE]

\* ------------------------------------------------------------ padding codec
\* check_padding looking at the last pad byte only
check_padding_last_only(padding) ==
  Len(padding) = 0 \/ padding[Len(padding)] = Len(padding) % 256

\* every pad byte holds its index counted from 1
check_padding(padding) ==
  \A i \in 1..Len(padding) : padding[i] = i % 256

generate_padding(len) == [i \in 1..len |-> i % 256]

\* remove_padding taking whatever ip_packet_create returns
remove_padding_unsupported_passes(this, plaintext) ==
  LET n == Len(plaintext)
  IN  IF n < 2 THEN [ok |-> FALSE, this |-> this, freed |-> {plaintext},
                                                  readers |-> 0]
      ELSE LET next_header == plaintext[n]
               pad_length == plaintext[n - 1]
           IN  IF n - 2 < pad_length
                  \/ ~check_padding(SubSeq(plaintext, n - 1 - pad_length, n - 2))
               THEN [ok |-> FALSE, this |-> this, freed |-> {plaintext},
                                                  readers |-> 0]
               ELSE [ok |-> TRUE,
                     this |-> [this EXCEPT
                                 !.payload =
                                   ip_packet_create(
                                     Take(plaintext, n - 2 - pad_length)),
                                 !.next_header = next_header],
                     freed |-> {}, readers |-> 0]

\* remove_padding setting the next header from the version of the inner
\* packet
remove_padding_next_header_by_version(this, plaintext) ==
  LET n == Len(plaintext)
  IN  IF n < 2 THEN [ok |-> FALSE, this |-> this, freed |-> {plaintext},
                                                  readers |-> 0]
      ELSE LET pad_length == plaintext[n - 1]
           IN  IF n - 2 < pad_length
                  \/ ~check_padding(SubSeq(plaintext, n - 1 - pad_length, n - 2))
               THEN [ok |-> FALSE, this |-> this, freed |-> {plaintext},
                                                  readers |-> 0]
               ELSE LET payload ==
                          ip_packet_create(Take(plaintext, n - 2 - pad_length))
                    IN  IF ~payload.present
                        THEN [ok |-> FALSE,
                              this |-> [this EXCEPT !.payload = NULL],
                              freed |-> {}, readers |-> 0]
                        ELSE [ok |-> TRUE,
                              this |-> [this EXCEPT
                                          !.payload = payload,
                                          !.next_header =
                                            IF payload.version = 4
                                            THEN IPPROTO_IPIP
                                            ELSE IPPROTO_IPV6],
                              freed |-> {}, readers |-> 0]

\* remove_padding: the last byte is the next header, the one before it the
\* pad length, before them the padding; what remains is the inner IP packet,
\* which takes over the plaintext buffer.  On the failed path the plaintext
\* buffer is released by chunk_free, with the bytes it holds: freed is the
\* set of buffers released, each as the byte string left in it.
remove_padding(this, plaintext) ==
  LET n == Len(plaintext)
  IN  IF n < 2 THEN [ok |-> FALSE, this |-> this, freed |-> {plaintext},
                                                  readers |-> 0]
      ELSE LET next_header == plaintext[n]
               pad_length == plaintext[n - 1]
           IN  IF n - 2 < pad_length
                  \/ ~check_padding(SubSeq(plaintext, n - 1 - pad_length, n - 2))
               THEN [ok |-> FALSE, this |-> this, freed |-> {plaintext},
                                                  readers |-> 0]
               ELSE LET payload ==
                          ip_packet_create(Take(plaintext, n - 2 - pad_length))
                    IN  IF ~payload.present
                        THEN [ok |-> FALSE,
                              this |-> [this EXCEPT !.payload = NULL],
                              freed |-> {}, readers |-> 0]
                        ELSE [ok |-> TRUE,
                              this |-> [this EXCEPT !.payload = payload,
                                                    !.next_header = next_header],
                              freed |-> {}, readers |-> 0]

\* ------------------------------------------------------------ byte order
\* the value whose four bytes are those of v in reverse order
bswap32(v) ==
  LET b == write_uint32(v) IN read_uint32(<<b[4], b[3], b[2], b[1]>>)

\* the four bytes of a u_int32_t in the memory of a little-endian host
HostBytes(v) ==
  LET b == write_uint32(v) IN <<b[4], b[3], b[2], b[1]>>

\* ntohl/htonl on a little-endian host
ntohl(v) == bswap32(v)

htonl(v) == bswap32(v)

\* ------------------------------------------------------------ encrypt
\* the sizes the primitives of an SA report: crypter->get_block_size(),
\* crypter->get_iv_size(), signer->get_block_size()
Prim(b, iv, icv) == [block_size |-> b, iv_size |-> iv, icv_size |-> icv]

DefaultPrim == Prim(BlockSize, IvSize, IcvSize)

\* padding_len adding no padding when the plaintext is already aligned
padding_len_or_none(payload_len, blocksize) ==
  (blocksize - ((payload_len + 2) % blocksize)) % blocksize

\* padding.len for plainlen = payload.len + 2
padding_len(payload_len, blocksize) ==
  blocksize - ((payload_len + 2) % blocksize)

\* encrypt_plaintext with pad bytes counted from zero
encrypt_plaintext_pad_from_zero(payload, next_header, blocksize) ==
  LET padlen == padding_len(Len(payload), blocksize)
  IN  payload \o [i \in 1..padlen |-> i - 1] \o <<padlen % 256, next_header>>

\* plaintext = payload, padding, pad_length, next_header
encrypt_plaintext(payload, next_header, blocksize) ==
  LET padlen == padding_len(Len(payload), blocksize)
  IN  payload \o generate_padding(padlen) \o <<padlen % 256, next_header>>

\* encrypt_header writing the SPI into both fields
encrypt_header_spi_twice(spi, seqno) ==
  write_uint32(ntohl(spi)) \o write_uint32(ntohl(spi))

\* the first eight bytes written: SPI and sequence number
encrypt_header(spi, seqno) ==
  write_uint32(ntohl(spi)) \o write_uint32(seqno)

\* the datagram written by encrypt around a plaintext: SPI, sequence number,
\* IV, the plaintext encrypted in place, and the ICV over all that precedes it
encrypt_datagram(spi, seqno, iv, plaintext, icvlen) ==
  LET auth_data == encrypt_header(spi, seqno) \o iv
                     \o crypter_encrypt(plaintext, iv)
  IN  auth_data \o signer_get_signature(auth_data, icvlen)

\* The environment of an encrypt call: env.prim are the sizes the primitives
\* report; env.rng is "none" (no RNG can be created), "short" (the RNG fails
\* to fill the IV) or "ok"; env.iv are the bytes left in the IV region by the
\* RNG; env.crypter and env.signer tell whether the primitive succeeds.
\* A result holds the status, the container, the cursor, the steps taken
\* (calls) and the buffers released (freed), each as the bytes left in it.

\* encrypt_sign emitting the buffer without the ICV
encrypt_sign_no_icv(this, next, buf, env) ==
  IF ~env.signer
  THEN [status |-> FAILED, this |-> this, cursor |-> next.cursor,
        calls |-> {"signer"}, freed |-> {buf}]
  ELSE [status |-> SUCCESS, this |-> [this EXCEPT !.packet = buf],
        cursor |-> next.cursor, calls |-> {"signer"}, freed |-> {}]

\* encrypt from the call of the signer: buf holds header, IV and ciphertext
encrypt_sign(this, next, buf, env) ==
  IF ~env.signer
  THEN [status |-> FAILED, this |-> this, cursor |-> next.cursor,
        calls |-> {"signer"}, freed |-> {buf}]
  ELSE [status |-> SUCCESS,
        this |-> [this EXCEPT !.packet =
                    buf \o signer_get_signature(buf, env.prim.icv_size)],
        cursor |-> next.cursor, calls |-> {"signer"}, freed |-> {}]

\* encrypt_crypt having the ICV computed before the tail is encrypted
encrypt_crypt_mac_first(this, next, buf, env) ==
  LET payload == IF this.payload.present THEN this.payload.encoding
                 ELSE <<>>
      plaintext == encrypt_plaintext(payload, this.next_header,
                                     env.prim.block_size)
  IN  IF ~env.crypter \/ ~env.signer
      THEN [status |-> FAILED, this |-> this, cursor |-> next.cursor,
            calls |-> {"crypter", "signer"}, freed |-> {buf \o plaintext}]
      ELSE [status |-> SUCCESS,
            this |-> [this EXCEPT !.packet =
                        buf \o crypter_encrypt(plaintext, env.iv)
                          \o signer_get_signature(buf \o plaintext,
                                                  env.prim.icv_size)],
            cursor |-> next.cursor, calls |-> {"crypter", "signer"},
            freed |-> {}]

\* encrypt from the writing of the plaintext: buf holds header and IV; a
\* crypter that fails is taken to leave the plaintext as it was
encrypt_crypt(this, next, buf, env) ==
  LET payload == IF this.payload.present THEN this.payload.encoding
                 ELSE <<>>
      plaintext == encrypt_plaintext(payload, this.next_header,
                                     env.prim.block_size)
  IN  IF ~env.crypter
      THEN [status |-> FAILED, this |-> this, cursor |-> next.cursor,
            calls |-> {"crypter"}, freed |-> {buf \o plaintext}]
      ELSE [encrypt_sign(this, next,
                         buf \o crypter_encrypt(plaintext, env.iv), env)
              EXCEPT !.calls = @ \cup {"crypter"}]

\* encrypt from the creation of the writer: header, then the IV from the RNG
encrypt_iv(this, next, spi, env) ==
  LET buf == encrypt_header(spi, next.seqno) \o env.iv
  IN  IF env.rng = "short"
      THEN [status |-> FAILED, this |-> this, cursor |-> next.cursor,
            calls |-> {"get_bytes"}, freed |-> {buf}]
      ELSE [encrypt_crypt(this, next, buf, env)
              EXCEPT !.calls = @ \cup {"get_bytes"}]

\* encrypt_rng reporting a missing RNG as FAILED
encrypt_rng_failed(this, next, spi, env) ==
  IF env.rng = "none"
  THEN [status |-> FAILED, this |-> this, cursor |-> next.cursor,
        calls |-> {"create_rng"}, freed |-> {}]
  ELSE [encrypt_iv(this, next, spi, env)
          EXCEPT !.calls = @ \cup {"create_rng"}]

\* encrypt from the creation of the RNG
encrypt_rng(this, next, spi, env) ==
  IF env.rng = "none"
  THEN [status |-> NOT_FOUND, this |-> this, cursor |-> next.cursor,
        calls |-> {"create_rng"}, freed |-> {}]
  ELSE [encrypt_iv(this, next, spi, env)
          EXCEPT !.calls = @ \cup {"create_rng"}]

\* encrypt going on with the value next_seqno left when the cursor has cycled
encrypt_cycle_ignored(this, cur, spi, env) ==
  LET cleared == [this EXCEPT !.packet = <<>>]
      next == next_seqno(cur)
  IN  [encrypt_rng(cleared, next, spi, env)
         EXCEPT !.calls = @ \cup {"next_seqno"}]

\* encrypt giving the sequence number back when a later step fails
encrypt_seqno_on_success(this, cur, spi, env) ==
  LET cleared == [this EXCEPT !.packet = <<>>]
      next == next_seqno(cur)
      r == encrypt_rng(cleared, next, spi, env)
  IN  IF ~next.ok
      THEN [status |-> FAILED, this |-> cleared, cursor |-> next.cursor,
            calls |-> {"next_seqno"}, freed |-> {}]
      ELSE [r EXCEPT !.calls = @ \cup {"next_seqno"},
                     !.cursor = IF r.status = SUCCESS THEN @ ELSE cur]

\* encrypt leaving the raw data as it finds it
encrypt_keeps_raw_bytes(this, cur, spi, env) ==
  LET next == next_seqno(cur)
  IN  IF ~next.ok
      THEN [status |-> FAILED, this |-> this, cursor |-> next.cursor,
            calls |-> {"next_seqno"}, freed |-> {}]
      ELSE [encrypt_rng(this, next, spi, env)
              EXCEPT !.calls = @ \cup {"next_seqno"}]

\* encrypt: the raw data is emptied first, then the sequence number is drawn
encrypt(this, cur, spi, env) ==
  LET cleared == [this EXCEPT !.packet = <<>>]
      next == next_seqno(cur)
  IN  IF ~next.ok
      THEN [status |-> FAILED, this |-> cleared, cursor |-> next.cursor,
            calls |-> {"next_seqno"}, freed |-> {}]
      ELSE [encrypt_rng(cleared, next, spi, env)
              EXCEPT !.calls = @ \cup {"next_seqno"}]

\* parse_header returning the SPI as read
parse_header_no_htonl(this, spi) ==
  LET n == Len(this.packet)
  IN  IF n < 4 THEN [ok |-> FALSE, spi |-> spi]
      ELSE IF n < 8
      THEN [ok |-> FALSE, spi |-> read_uint32(Take(this.packet, 4))]
      ELSE [ok |-> TRUE, spi |-> read_uint32(Take(this.packet, 4))]

\* parse_header: spi is the caller's variable, which the first read
\* overwrites; it is converted only when both reads succeed
parse_header(this, spi) ==
  LET n == Len(this.packet)
  IN  IF n < 4 THEN [ok |-> FALSE, spi |-> spi]
      ELSE IF n < 8
      THEN [ok |-> FALSE, spi |-> read_uint32(Take(this.packet, 4))]
      ELSE [ok |-> TRUE, spi |-> htonl(read_uint32(Take(this.packet, 4)))]

\* ------------------------------------------------------------ decrypt
\* the layout read from the raw data: SPI, sequence number, IV, ICV (from the
\* end) and the ciphertext between them
decrypt_layout(data) ==
  LET n == Len(data)
  IN  IF n < 8 + IvSize + IcvSize \/ (n - 8 - IvSize - IcvSize) % BlockSize # 0
      THEN [ok |-> FALSE]
      ELSE [ok |-> TRUE,
            spi |-> read_uint32(Take(data, 4)),
            seq |-> read_uint32(SubSeq(data, 5, 8)),
            iv |-> SubSeq(data, 9, 8 + IvSize),
            icv |-> SubSeq(data, n - IcvSize + 1, n),
            ciphertext |-> SubSeq(data, 9 + IvSize, n - IcvSize)]

\* icv_verified comparing only the first byte of the ICV
icv_verified_first_byte(data, lay, env) ==
  /\ env.signer = "ok"
  /\ signer_icv(env.pending \o Take(data, 8) \o lay.iv
                 \o lay.ciphertext)[1] = lay.icv[1]

\* The environment of a decrypt call: env.crypter tells whether the crypter
\* succeeds; env.signer is "ok", or names the slice at which the signer
\* fails ("header": the first get_signature call, "iv": the second one);
\* env.pending are the bytes the signer of the SA has been fed by earlier
\* calls and has not yet signed.

\* the signer is fed the first eight bytes, then the IV, then verifies the
\* ciphertext against the ICV
icv_verified(data, lay, env) ==
  /\ env.signer = "ok"
  /\ signer_icv(env.pending \o Take(data, 8) \o lay.iv \o lay.ciphertext)
       = lay.icv

\* What the signer of the SA can hold when decrypt returns, given the calls
\* the invocation made.  verify_signature ends the computation.  When a
\* get_signature call fails, decrypt returns at once; whether the signer
\* drops what it was fed before is not decided by decrypt, so both outcomes
\* are possible.
signer_left(data, env, calls) ==
  IF "signer" \notin calls THEN {env.pending}
  ELSE IF env.signer = "ok" THEN {<<>>}
  ELSE IF env.signer = "header" THEN {<<>>, env.pending}
  ELSE {<<>>, env.pending \o Take(data, 8)}

\* decrypt from the call of remove_padding
decrypt_unpad(this, win, plaintext) ==
  LET r == remove_padding(this, plaintext)
  IN  [status |-> IF r.ok THEN SUCCESS ELSE PARSE_ERROR,
       this |-> r.this, win |-> win, calls |-> {}, freed |-> r.freed,
                                                   readers |-> r.readers]

\* decrypt_plain having the crypter decrypt in place, in the raw data
decrypt_plain_in_place(this, win, lay, env) ==
  IF ~env.crypter
  THEN [status |-> FAILED, this |-> this, win |-> win, calls |-> {"crypter"},
        freed |-> {}, readers |-> 0]
  ELSE LET plaintext == crypter_decrypt(lay.ciphertext, lay.iv)
           written == [this EXCEPT !.packet = Take(@, 8 + IvSize)
                                                \o plaintext \o lay.icv]
       IN  [decrypt_unpad(written, win, plaintext)
              EXCEPT !.calls = @ \cup {"crypter"}]

\* decrypt from the call of the crypter
decrypt_plain(this, win, lay, env) ==
  IF ~env.crypter
  THEN [status |-> FAILED, this |-> this, win |-> win, calls |-> {"crypter"},
        freed |-> {}, readers |-> 0]
  ELSE [decrypt_unpad(this, win, crypter_decrypt(lay.ciphertext, lay.iv))
          EXCEPT !.calls = @ \cup {"crypter"}]

\* decrypt_verify without the call of set_authenticated_seqno
decrypt_verify_no_commit(this, win, lay, env) ==
  IF ~icv_verified(this.packet, lay, env)
  THEN [status |-> FAILED, this |-> this, win |-> win, calls |-> {"signer"},
        freed |-> {}, readers |-> 0]
  ELSE [decrypt_plain(this, win, lay, env) EXCEPT !.calls = @ \cup {"signer"}]

\* decrypt_verify recording the sequence number before the ICV is verified
decrypt_verify_commit_first(this, win, lay, env) ==
  IF ~icv_verified(this.packet, lay, env)
  THEN [status |-> FAILED, this |-> this,
        win |-> set_authenticated_seqno(win, lay.seq), calls |-> {"signer"},
        freed |-> {}, readers |-> 0]
  ELSE [decrypt_plain(this, set_authenticated_seqno(win, lay.seq), lay, env)
          EXCEPT !.calls = @ \cup {"signer"}]

\* decrypt_verify recording the sequence number only when the rest succeeds
decrypt_verify_commit_last(this, win, lay, env) ==
  IF ~icv_verified(this.packet, lay, env)
  THEN [status |-> FAILED, this |-> this, win |-> win, calls |-> {"signer"},
        freed |-> {}, readers |-> 0]
  ELSE LET r == decrypt_plain(this, win, lay, env)
       IN  [r EXCEPT !.calls = @ \cup {"signer"},
                     !.win = IF r.status = SUCCESS
                             THEN set_authenticated_seqno(win, lay.seq)
                             ELSE win]

\* decrypt from the ICV verification: the sequence number is recorded as
\* authenticated once the ICV has verified
decrypt_verify(this, win, lay, env) ==
  IF ~icv_verified(this.packet, lay, env)
  THEN [status |-> FAILED, this |-> this, win |-> win, calls |-> {"signer"},
        freed |-> {}, readers |-> 0]
  ELSE [decrypt_plain(this, set_authenticated_seqno(win, lay.seq), lay, env)
          EXCEPT !.calls = @ \cup {"signer"}]

\* decrypt_seqno verifying the sequence number after the ICV
decrypt_seqno_after_icv(this, win, lay, env) ==
  IF ~icv_verified(this.packet, lay, env)
  THEN [status |-> FAILED, this |-> this, win |-> win, calls |-> {"signer"},
        freed |-> {}, readers |-> 0]
  ELSE IF ~verify_seqno(win, lay.seq)
  THEN [status |-> VERIFY_ERROR, this |-> this, win |-> win,
        calls |-> {"signer"}, freed |-> {}, readers |-> 0]
  ELSE decrypt_verify(this, win, lay, env)

\* decrypt_seqno letting sequence number zero through to the ICV verification
decrypt_seqno_zero_passes(this, win, lay, env) ==
  IF lay.seq # U32Zero /\ ~verify_seqno(win, lay.seq)
  THEN [status |-> VERIFY_ERROR, this |-> this, win |-> win, calls |-> {},
        freed |-> {}, readers |-> 0]
  ELSE decrypt_verify(this, win, lay, env)

\* decrypt_seqno without the verification of the sequence number
decrypt_seqno_skipped(this, win, lay, env) ==
  decrypt_verify(this, win, lay, env)

\* decrypt_seqno accepting only sequence numbers above the highest one
decrypt_seqno_only_ahead(this, win, lay, env) ==
  IF ~U32Lt(win.highest, lay.seq)
  THEN [status |-> VERIFY_ERROR, this |-> this, win |-> win, calls |-> {},
        freed |-> {}, readers |-> 0]
  ELSE decrypt_verify(this, win, lay, env)

\* decrypt from the verification of the sequence number
decrypt_seqno(this, win, lay, env) ==
  IF ~verify_seqno(win, lay.seq)
  THEN [status |-> VERIFY_ERROR, this |-> this, win |-> win, calls |-> {},
        freed |-> {}, readers |-> 0]
  ELSE decrypt_verify(this, win, lay, env)

\* decrypt leaving the payload of an earlier call in place
decrypt_keeps_payload(this, win, env) ==
  LET lay == decrypt_layout(this.packet)
  IN  IF ~lay.ok
      THEN [status |-> PARSE_ERROR, this |-> this, win |-> win, calls |-> {},
            freed |-> {}, readers |-> 1]
      ELSE decrypt_seqno(this, win, lay, env)

\* decrypt: the previous payload is destroyed first.  readers counts the
\* byte readers the invocation has created and not destroyed: decrypt
\* destroys its reader once the layout has been read, so the return taken
\* when the layout cannot be read leaves it alive; remove_padding destroys
\* its reader on each of its paths.
decrypt(this, win, env) ==
  LET fresh == [this EXCEPT !.payload = NULL]
      lay == decrypt_layout(this.packet)
  IN  IF ~lay.ok
      THEN [status |-> PARSE_ERROR, this |-> fresh, win |-> win, calls |-> {},
            freed |-> {}, readers |-> 1]
      ELSE decrypt_seqno(fresh, win, lay, env)

\* ------------------------------------------------------------ containers
\* A container of the caller is a record of its state ("live"), the
\* endpoints and the raw data of its packet_t, the reference to its inner
\* packet (0 for NULL) and its next header.  The inner packets are kept in a
\* sequence h, a reference being an index into it: each is a record of
\* whether it has not been destroyed (alive), its version and its encoding.

\* the inner packet behind reference id, as the operations above take it;
\* ref tells a packet that exists from one that ip_packet_create makes
Deref(h, id) ==
  IF id = 0 THEN NULL
  ELSE [present |-> TRUE, version |-> h[id].version,
        encoding |-> h[id].encoding, ref |-> id]

\* the container k as the operations above take it
View(k, h) ==
  [packet |-> k.packet, payload |-> Deref(h, k.payload),
   next_header |-> k.next_header]

\* ip_packet_t.destroy through DESTROY_IF
DestroyIf(h, id) == IF id = 0 THEN h ELSE [h EXCEPT ![id].alive = FALSE]

\* The container k and the inner packets h after an operation has turned
\* View(k, h) into t: a payload that the operation has replaced was
\* destroyed, and a payload that it has created is a new inner packet.
Store(k, h, t) ==
  IF t.payload = Deref(h, k.payload)
  THEN [this |-> [k EXCEPT !.packet = t.packet,
                           !.next_header = t.next_header],
        ips |-> h]
  ELSE LET h1 == DestroyIf(h, k.payload)
       IN  IF t.payload.present
           THEN [this |-> [k EXCEPT !.packet = t.packet,
                                    !.next_header = t.next_header,
                                    !.payload = Len(h1) + 1],
                 ips |-> Append(h1, [alive |-> TRUE,
                                     version |-> t.payload.version,
                                     encoding |-> t.payload.encoding])]
           ELSE [this |-> [k EXCEPT !.packet = t.packet,
                                    !.next_header = t.next_header,
                                    !.payload = 0],
                 ips |-> h1]

\* a container made by one of the constructors, for a packet_t with the
\* endpoints src and dst
Created(t, src, dst, h) ==
  Store([state |-> "live", source |-> src, destination |-> dst,
         packet |-> <<>>, payload |-> 0, next_header |-> IPPROTO_NONE],
        h, t)

get_source(k) == k.source

get_destination(k) == k.destination

get_data(k) == k.packet

get_next_header(k) == k.next_header

get_payload(k) == k.payload

set_data(k, data) == [k EXCEPT !.packet = data]

skip_bytes(k, bytes) == [k EXCEPT !.packet = SubSeq(@, bytes + 1, Len(@))]

\* extract_payload leaving the reference in the container
extract_payload_keeps(k) == [payload |-> k.payload, this |-> k]

\* extract_payload: what it returns and the container it leaves
extract_payload(k) ==
  [payload |-> k.payload, this |-> [k EXCEPT !.payload = 0]]

\* clone copying the reference to the payload
clone_shares_payload(k, h) == [this |-> k, ips |-> h]

\* clone: the packet_t and the inner packet are cloned, the next header is
\* copied
clone(k, h) ==
  IF k.payload = 0
  THEN [this |-> k, ips |-> h]
  ELSE [this |-> [k EXCEPT !.payload = Len(h) + 1],
        ips |-> Append(h, [h[k.payload] EXCEPT !.alive = TRUE])]

\* destroy: the inner packets that are left once the container is gone
destroy(k, h) == DestroyIf(h, k.payload)

\* ------------------------------------------------------------ datagrams
\* SPI of the SA, as handed to encrypt
Spi == <<57005, 48879>>

Iv0 == [i \in 1..IvSize |-> (17 * i + 3) % 256]

\* a datagram of the peer around a given plaintext
Datagram(seq, plaintext) ==
  encrypt_datagram(Spi, seq, Iv0, plaintext, IcvSize)

\* a one-byte IPv4 payload in a well-formed tail
GoodPlain == encrypt_plaintext(<<69>>, IPPROTO_IPIP, BlockSize)

\* pad length 3 with pad bytes 2, 4, 3
BadPadPlain == <<69, 0, 0, 2, 4, 3, 3, IPPROTO_IPIP>>

\* pad length larger than what precedes it
LongPadPlain == <<69, 1, 9, IPPROTO_IPIP>>

\* well-formed tail around a payload that is neither IPv4 nor IPv6
BadIpPlain == <<21, 1, 1, IPPROTO_IPIP>>

Valid(seq) == Datagram(seq, GoodPlain)

DatagramLen == 8 + IvSize + Len(GoodPlain) + IcvSize

\* a five-byte IPv4 payload in a well-formed tail of two blocks
TwoBlockPlain == encrypt_plaintext(<<69, 0, 0, 0, 0>>, IPPROTO_IPIP, BlockSize)

TwoBlockLen == 8 + IvSize + Len(TwoBlockPlain) + IcvSize

\* A plaintext of two blocks whose pad length byte is p: the pad bytes 1..p
\* precede it, and before them lies what is left for the payload.  With
\* pos > 0 the pad byte of index pos holds val instead.  When p exceeds the 6
\* bytes before the pad length byte, these are just some bytes.
TailPlain(p, pos, val) ==
  LET base == [i \in 1..8 |->
                 IF i = 8 THEN IPPROTO_IPIP
                 ELSE IF i = 7 THEN p
                 ELSE IF p <= 6 /\ i > 6 - p THEN i - (6 - p)
                 ELSE IF i = 1 THEN 69
                 ELSE 0]
  IN  IF pos > 0 THEN [base EXCEPT ![6 - p + pos] = val] ELSE base

\* An arriving datagram is described by the sequence number its sender gave
\* it, by what was done to it (kind; byte and bit name the inverted bit of a
\* "flip", byte the length of a "prefix"; byte, bit and val the pad length,
\* the index of the deviating pad byte and its value in a "tail") and by
\* whether the crypter works while it is processed.
Arrival(seq, kind, byte, bit, crypter) ==
  [seq |-> seq, kind |-> kind, byte |-> byte, bit |-> bit,
   crypter |-> crypter, val |-> 0, signer |-> "ok"]

\* the bytes of an arrival
Bytes(in) ==
  CASE in.kind = "valid" -> Valid(in.seq)
    [] in.kind = "badicv" -> FlipBit(Valid(in.seq), DatagramLen, 0)
    [] in.kind = "flip" -> FlipBit(Valid(in.seq), in.byte, in.bit)
    [] in.kind = "badpad" -> Datagram(in.seq, BadPadPlain)
    [] in.kind = "longpad" -> Datagram(in.seq, LongPadPlain)
    [] in.kind = "badip" -> Datagram(in.seq, BadIpPlain)
    [] in.kind = "short" -> Take(Valid(in.seq), 7)
    [] in.kind = "cut" -> Take(Valid(in.seq), DatagramLen - 1)
    [] in.kind = "none" -> <<>>
    [] in.kind = "prefix" -> Take(Datagram(in.seq, TwoBlockPlain), in.byte)
    [] in.kind = "empty" -> Datagram(in.seq, <<>>)
    [] in.kind = "tail" -> Datagram(in.seq, TailPlain(in.byte, in.bit, in.val))

NoArrival == Arrival(U32Zero, "none", 0, 0, TRUE)

\* the primitives' behaviour during the decrypt of an arrival
DecryptEnv(in, fed) ==
  [crypter |-> in.crypter, signer |-> in.signer, pending |-> fed]

\* primitives that work, with a signer that holds nothing
WorkingPrimitives == [crypter |-> TRUE, signer |-> "ok", pending |-> <<>>]

\* ------------------------------------------------------------ state
VARIABLES
  this,       \* the packet container the last operation worked on
  highest,    \* inbound SA: highest authenticated sequence number
  bitmap,     \* inbound SA: positions set in the anti-replay bitmap
  cursor,     \* outbound SA: last sequence number issued
  op,         \* the last operation
  status,     \* the status it returned
  calls,      \* the primitives it invoked
  input,      \* the arrival it worked on
  pre,        \* the container, the SA state and the history when it was called
  before,     \* what the decrypt call before it was given
  committed,  \* the sequence numbers committed to the window, in order
  okData,     \* the datagrams for which decrypt has returned SUCCESS
  sent,       \* the datagrams emitted by encrypt, with what went into them
  thr,        \* per thread: the invocation it is in (SpecConc, SpecSeq)
  ops,        \* number of pipeline calls so far
  prim,       \* outbound SA: the sizes its primitives report
  freed,      \* the buffers the last operation released, as the bytes in them
  issued,     \* the values next_seqno has returned, in order
  emitted,    \* the sequence numbers of the datagrams emitted, in order
  hdr,        \* what the last parse_header returned
  pending,    \* inbound SA: the bytes its signer has been fed and not signed
  cont,       \* the containers of the caller (SpecCont)
  ips,        \* the inner packets that have been created (SpecCont)
  extracted,  \* the inner packets extract_payload has handed to the caller
  readers,    \* the byte readers that were created and not destroyed
  dyn,        \* the dynamic socket and the threads in it (SpecSock)
  imcv        \* libimcv and the library under it (SpecImcv)

vars == <<this, highest, bitmap, cursor, op, status, calls, input, pre,
          before, committed, okData, sent, thr, ops, prim, freed, issued,
          emitted, hdr, pending, cont, ips, extracted, readers, dyn, imcv>>

Window == [highest |-> highest, bitmap |-> bitmap]

\* the threads that call decrypt on the inbound SA (SpecConc) or encrypt on
\* the outbound SA (SpecSeq)
Threads == {1, 2}

\* a thread that is in no invocation and has returned from none; seen is
\* what had been emitted when the thread entered encrypt
Idle == [pc |-> "idle", this |-> esp_packet_create_from_packet(<<>>),
         seq |-> U32Zero, status |-> "none", seen |-> <<>>]

Snapshot == [this |-> this, highest |-> highest, bitmap |-> bitmap,
             cursor |-> cursor, okData |-> okData, committed |-> committed,
             emitted |-> emitted, op |-> op, status |-> status,
             pending |-> pending, cont |-> cont, ips |-> ips,
             extracted |-> extracted]

\* the last call was given a MAC-invalid datagram carrying highest + 10
ForgedAhead ==
  /\ op = "decrypt"
  /\ input.kind = "badicv"
  /\ U32Lt(pre.highest, U32Sub(U32Max, 9))
  /\ input.seq = U32Add(pre.highest, 10)

\* the containers the caller can hold at a time (SpecCont)
Conts == {1, 2}

\* a container that has not been created, or has been destroyed
NoContainer == [state |-> "none"]

\* the dynamic socket before socket_dynamic_socket_create
NoSocket == [state |-> "none"]

\* libimcv before its first call; the host program has not initialized the
\* library
NotLoaded == [state |-> "none"]

\* no parse_header call has returned yet
NoHeader == [ok |-> FALSE, spi |-> U32Zero]

Init ==
  /\ this = esp_packet_create_from_packet(<<>>)
  /\ highest = InitialWindow.highest
  /\ bitmap = InitialWindow.bitmap
  /\ cursor = U32Zero
  /\ op = "create"
  /\ status = SUCCESS
  /\ calls = {}
  /\ input = NoArrival
  /\ pre = [this |-> esp_packet_create_from_packet(<<>>),
            highest |-> InitialWindow.highest,
            bitmap |-> InitialWindow.bitmap,
            cursor |-> U32Zero,
            okData |-> {},
            committed |-> <<>>,
            emitted |-> <<>>,
            op |-> "create",
            status |-> SUCCESS,
            pending |-> <<>>,
            cont |-> [c \in Conts |-> NoContainer],
            ips |-> <<>>,
            extracted |-> {}]
  /\ before = "none"
  /\ committed = <<>>
  /\ okData = {}
  /\ sent = {}
  /\ thr = [t \in Threads |-> Idle]
  /\ ops = 0
  /\ prim = DefaultPrim
  /\ freed = {}
  /\ issued = <<>>
  /\ emitted = <<>>
  /\ hdr = NoHeader
  /\ pending = <<>>
  /\ cont = [c \in Conts |-> NoContainer]
  /\ ips = <<>>
  /\ extracted = {}
  /\ readers = 0
  /\ dyn = NoSocket
  /\ imcv = NotLoaded

\* decrypt called on the container c, which holds the bytes of arrival in
DecryptCall(c, in) ==
  LET r == decrypt(c, Window, DecryptEnv(in, pending))
  IN  /\ ops' = ops + 1
      /\ op' = "decrypt"
      /\ input' = in
      /\ pre' = [Snapshot EXCEPT !.this = c]
      /\ before' = IF ForgedAhead THEN "forged_ahead" ELSE "other"
      /\ this' = r.this
      /\ highest' = r.win.highest
      /\ bitmap' = r.win.bitmap
      /\ status' = r.status
      /\ calls' = r.calls
      /\ committed' = IF r.win # Window THEN Append(committed, in.seq)
                      ELSE committed
      /\ okData' = IF r.status = SUCCESS THEN okData \cup {c.packet}
                   ELSE okData
      /\ freed' = r.freed
      /\ pending' \in signer_left(c.packet, DecryptEnv(in, pending),
                                 r.calls)
      /\ readers' = readers + r.readers
      /\ UNCHANGED <<cursor, sent, thr, prim, issued, emitted, hdr, cont, ips,
                     extracted, dyn,
                     imcv>>

\* a datagram arrives: the receiver wraps it in a container and decrypts it
Receive(in) == DecryptCall(esp_packet_create_from_packet(Bytes(in)), in)

\* decrypt is called once more on the container at hand
Redecrypt(crypter) ==
  /\ op = "decrypt"
  /\ DecryptCall(this, [input EXCEPT !.crypter = crypter])

\* ------------------------------------------------------------ Spec
\* what may arrive with sequence number seq
Crafted(seq) ==
  {Arrival(seq, k, 0, 0, TRUE) :
     k \in {"valid", "badicv", "badpad", "longpad", "badip", "short", "cut"}}
    \cup {Arrival(seq, "valid", 0, 0, FALSE)}

\* sequence numbers offered to a window whose highest is h
SeqChoices(h) ==
  {U32(0), U32(1), U32(2), U32Max}
    \cup (IF h # U32Max THEN {U32Add(h, 1)} ELSE {})
    \cup (IF U32Lt(h, U32Sub(U32Max, 9)) THEN {U32Add(h, 10)} ELSE {})

\* the decrypt pipeline under well-formed, forged and malformed datagrams
ReceiveCrafted ==
  /\ ops < MaxOps
  /\ \E s \in SeqChoices(highest) : \E in \in Crafted(s) : Receive(in)

RedecryptSame ==
  /\ ops < MaxOps
  /\ \E c \in BOOLEAN : Redecrypt(c)

Next == ReceiveCrafted \/ RedecryptSame

Spec == Init /\ [][Next]_vars

\* ------------------------------------------------------------ SpecMac
\* the decrypt pipeline under valid datagrams and under every single-bit
\* modification of them
MacSeqs(h) ==
  {U32(1), U32(2)} \cup (IF h # U32Max THEN {U32Add(h, 1)} ELSE {})

ReceiveIntact ==
  /\ ops < MaxMacOps
  /\ \E s \in MacSeqs(highest) : Receive(Arrival(s, "valid", 0, 0, TRUE))

ReceiveFlipped ==
  /\ ops < MaxMacOps
  /\ \E s \in MacSeqs(highest) : \E i \in 1..DatagramLen : \E b \in 0..7 :
       Receive(Arrival(s, "flip", i, b, TRUE))

NextMac == ReceiveIntact \/ ReceiveFlipped

SpecMac == Init /\ [][NextMac]_vars

\* ------------------------------------------------------------ SpecWin
\* the anti-replay window under reordering, gaps, jumps of W or more,
\* replays and interleaved datagrams that fail
WinSeqs ==
  {U32(0), U32(3), U32(4), U32(5), U32(100), U32(200 - W), U32(201 - W),
   U32(200)}

ReceiveReordered ==
  /\ ops < MaxWinOps
  /\ \E s \in WinSeqs : \E k \in {"valid", "badicv", "badpad"} :
       Receive(Arrival(s, k, 0, 0, TRUE))

NextWin == ReceiveReordered

SpecWin == Init /\ [][NextWin]_vars

\* ------------------------------------------------------------ SpecLen
\* the decrypt pipeline under datagrams of every length: the first bytes of
\* a valid datagram of two blocks, all of it, and a datagram with IV and
\* valid ICV but no ciphertext
LenSeqs == {U32(0), U32(1), U32(2)}

ReceivePrefix ==
  /\ ops < MaxLenOps
  /\ \E s \in LenSeqs : \E n \in 0..TwoBlockLen :
       Receive(Arrival(s, "prefix", n, 0, TRUE))

ReceiveEmpty ==
  /\ ops < MaxLenOps
  /\ \E s \in LenSeqs : Receive(Arrival(s, "empty", 0, 0, TRUE))

NextLen == ReceivePrefix \/ ReceiveEmpty

SpecLen == Init /\ [][NextLen]_vars

\* ------------------------------------------------------------ SpecPad
\* the decrypt pipeline under MAC-valid datagrams with new sequence numbers
\* whose plaintexts carry every pad length from 0 on, with the pad bytes in
\* order or with one of them holding another value
PadLengths == (0..8) \cup {255}

\* the pad bytes that may deviate under pad length p; 0 stands for none
PadPositions(p) == IF p <= 6 THEN 0..p ELSE {0}

\* values other than pos for the pad byte of index pos
PadValues(pos) == IF pos = 0 THEN {0} ELSE {0, pos + 1}

ReceiveTail ==
  /\ ops < MaxPadOps
  /\ highest # U32Max
  /\ \E p \in PadLengths : \E pos \in PadPositions(p) :
       \E v \in PadValues(pos) :
         Receive([Arrival(U32Add(highest, 1), "tail", p, pos, TRUE)
                    EXCEPT !.val = v])

NextPad == ReceiveTail

SpecPad == Init /\ [][NextPad]_vars

\* ------------------------------------------------------------ SpecErr
\* decrypt ending in an error, followed by datagrams that are in order
\* what makes the decrypt of the datagram carrying seq end in an error
Failing(seq) ==
  {Arrival(seq, k, 0, 0, TRUE) :
     k \in {"badicv", "badpad", "longpad", "badip", "short", "cut"}}
    \cup {Arrival(seq, "valid", 0, 0, FALSE)}
    \cup {[Arrival(seq, "valid", 0, 0, TRUE) EXCEPT !.signer = f] :
            f \in {"header", "iv"}}

ErrReceiveFailing ==
  /\ ops < MaxErrOps
  /\ highest # U32Max
  /\ \E in \in Failing(U32Add(highest, 1))
               \cup {Arrival(highest, "valid", 0, 0, TRUE)} :
       Receive(in)

ErrReceiveValid ==
  /\ ops < MaxErrOps
  /\ highest # U32Max
  /\ Receive(Arrival(U32Add(highest, 1), "valid", 0, 0, TRUE))

NextErr == ErrReceiveFailing \/ ErrReceiveValid

SpecErr == Init /\ [][NextErr]_vars

\* ------------------------------------------------------------ SpecRT
\* an outbound SA and the matching inbound SA: containers are built from
\* inner packets and encrypted, and what was emitted is delivered, in any
\* order and any number of times, and decrypted
Payloads ==
  {ip_packet_create(<<69>>), ip_packet_create(<<96, 1>>),
   ip_packet_create(<<69, 0, 0>>), NULL}

\* an SPI whose four bytes differ, so that its byte order shows
Spi2 == <<258, 772>>

IvZero == [i \in 1..IvSize |-> 0]

\* the SPI handed to encrypt and the bytes the RNG yields during the call
SpiIvs == {<<Spi, Iv0>>, <<Spi2, IvZero>>}

\* the behaviours of the RNG, the crypter and the signer during an encrypt
\* that fails
EncryptFailures ==
  {[prim |-> DefaultPrim, crypter |-> TRUE, signer |-> TRUE, rng |-> r,
    iv |-> Iv0] : r \in {"none", "short"}}
    \cup {[prim |-> DefaultPrim, crypter |-> FALSE, signer |-> TRUE,
           rng |-> "ok", iv |-> Iv0],
          [prim |-> DefaultPrim, crypter |-> TRUE, signer |-> FALSE,
           rng |-> "ok", iv |-> Iv0]}

EncryptEnvs(spi) ==
  {[prim |-> DefaultPrim, crypter |-> TRUE, signer |-> TRUE, rng |-> "ok",
    iv |-> x[2]] : x \in {y \in SpiIvs : y[1] = spi}}
    \cup (IF spi = Spi THEN EncryptFailures ELSE {})

\* esp_packet_create_from_payload
CreateFromPayload ==
  /\ ops < MaxRtOps
  /\ \E p \in Payloads : this' = esp_packet_create_from_payload(p)
  /\ op' = "create"
  /\ status' = SUCCESS
  /\ calls' = {}
  /\ input' = NoArrival
  /\ pre' = Snapshot
  /\ freed' = {}
  /\ UNCHANGED <<highest, bitmap, cursor, before, committed, okData, sent,
                 thr, ops, prim, issued, emitted, hdr,
                 pending, cont, ips, extracted,
                 readers, dyn, imcv>>

\* encrypt called on the container at hand with the outbound SA, the SPI spi
\* and the environment e; input records what the call was given
EncryptCall(spi, e) ==
  LET r == encrypt(this, cursor, spi, e)
  IN  /\ this' = r.this
      /\ cursor' = r.cursor
      /\ status' = r.status
      /\ sent' = IF r.status = SUCCESS
                 THEN sent \cup {[data |-> r.this.packet,
                                  seq |-> r.cursor,
                                  spi |-> spi,
                                  payload |-> this.payload,
                                  next_header |-> this.next_header]}
                 ELSE sent
      /\ calls' = r.calls
      /\ freed' = r.freed
      /\ issued' = IF cursor # r.cursor THEN Append(issued, r.cursor)
                    ELSE issued
      /\ emitted' = IF r.status = SUCCESS THEN Append(emitted, r.cursor)
                     ELSE emitted
      /\ ops' = ops + 1
      /\ op' = "encrypt"
      /\ input' = [spi |-> spi, env |-> e]
      /\ pre' = Snapshot
      /\ UNCHANGED <<highest, bitmap, before, committed, okData, thr, prim,
                     hdr,
                 pending, cont, ips, extracted,
                 readers, dyn, imcv>>

\* encrypt on the container at hand, with the outbound SA
Encrypt ==
  /\ ops < MaxRtOps
  /\ op = "create"
  /\ \E spi \in {Spi, Spi2} : \E e \in EncryptEnvs(spi) : EncryptCall(spi, e)

\* a datagram that was emitted arrives and is decrypted in a new container
Deliver ==
  /\ ops < MaxRtOps
  /\ \E m \in sent :
       DecryptCall(esp_packet_create_from_packet(m.data),
                   Arrival(m.seq, "sent", 0, 0, TRUE))

\* decrypt is called on the container that encrypt has just filled
DecryptOwn ==
  /\ ops < MaxRtOps
  /\ op = "encrypt"
  /\ status = SUCCESS
  /\ DecryptCall(this, Arrival(cursor, "sent", 0, 0, TRUE))

NextRT == CreateFromPayload \/ Encrypt \/ Deliver \/ DecryptOwn

SpecRT == Init /\ [][NextRT]_vars

\* ------------------------------------------------------------ SpecConc
\* decrypt invocations of several threads on one inbound SA.  decrypt takes
\* no lock: between its calls of verify_seqno and set_authenticated_seqno
\* other invocations run.  Each call into the SA is taken as one step.
ConcUnchanged ==
  UNCHANGED <<this, cursor, op, status, calls, input, pre, before, okData,
              sent, prim, freed, issued, emitted, hdr, pending, cont, ips,
              extracted,
                 readers, dyn, imcv>>

\* thread t enters decrypt with a datagram; the layout is read
ConcEnter(t) ==
  /\ ops < MaxConcOps
  /\ thr[t].pc \in {"idle", "done"}
  /\ \E s \in {U32(1), U32(2)} : \E k \in {"valid", "badicv"} :
       LET c == esp_packet_create_from_packet(
                  Bytes(Arrival(s, k, 0, 0, TRUE)))
           lay == decrypt_layout(c.packet)
       IN  thr' = [thr EXCEPT ![t] =
                     [pc |-> "verify_seqno", this |-> c, seq |-> lay.seq,
                      status |-> "none", seen |-> <<>>]]
  /\ ops' = ops + 1
  /\ UNCHANGED <<highest, bitmap, committed>>
  /\ ConcUnchanged

\* thread t calls verify_seqno
ConcVerifySeqno(t) ==
  /\ thr[t].pc = "verify_seqno"
  /\ thr' = [thr EXCEPT ![t] =
               IF verify_seqno(Window, thr[t].seq)
               THEN [@ EXCEPT !.pc = "verify_icv"]
               ELSE [@ EXCEPT !.pc = "done", !.status = VERIFY_ERROR]]
  /\ UNCHANGED <<highest, bitmap, committed, ops>>
  /\ ConcUnchanged

\* thread t has the signer verify the ICV
ConcVerifyIcv(t) ==
  /\ thr[t].pc = "verify_icv"
  /\ thr' = [thr EXCEPT ![t] =
               IF icv_verified(thr[t].this.packet,
                               decrypt_layout(thr[t].this.packet),
                               WorkingPrimitives)
               THEN [@ EXCEPT !.pc = "set_authenticated_seqno"]
               ELSE [@ EXCEPT !.pc = "done", !.status = FAILED]]
  /\ UNCHANGED <<highest, bitmap, committed, ops>>
  /\ ConcUnchanged

\* thread t calls set_authenticated_seqno
ConcCommit(t) ==
  /\ thr[t].pc = "set_authenticated_seqno"
  /\ highest' = set_authenticated_seqno(Window, thr[t].seq).highest
  /\ bitmap' = set_authenticated_seqno(Window, thr[t].seq).bitmap
  /\ committed' = Append(committed, thr[t].seq)
  /\ thr' = [thr EXCEPT ![t].pc = "crypter"]
  /\ UNCHANGED ops
  /\ ConcUnchanged

\* thread t decrypts, removes the padding and returns
ConcFinish(t) ==
  /\ thr[t].pc = "crypter"
  /\ LET r == decrypt_plain(thr[t].this, Window,
                            decrypt_layout(thr[t].this.packet),
                            WorkingPrimitives)
     IN  thr' = [thr EXCEPT ![t] =
                   [@ EXCEPT !.pc = "done", !.this = r.this,
                             !.status = r.status]]
  /\ UNCHANGED <<highest, bitmap, committed, ops>>
  /\ ConcUnchanged

NextConc ==
  \E t \in Threads :
    \/ ConcEnter(t)
    \/ ConcVerifySeqno(t)
    \/ ConcVerifyIcv(t)
    \/ ConcCommit(t)
    \/ ConcFinish(t)

SpecConc == Init /\ [][NextConc]_vars

\* ------------------------------------------------------------ SpecEnc
\* An outbound SA by itself.  Its primitives report one of several sizes and
\* its cursor is at the start or at the end of the sequence numbers.
\* Containers are built around inner packets of every length up to a bound
\* and of some greater lengths, and encrypted under each combination of
\* failing collaborators; parse_header is called on what encrypt leaves and
\* on containers that received the first bytes of an emitted datagram.
Prims == {DefaultPrim, Prim(8, 8, 16), Prim(16, 16, 12)}

\* where the cursor of an outbound SA stands at first, for each of them
Cursors(p) ==
  IF p = DefaultPrim THEN {U32Zero, U32Sub(U32Max, 1), U32Max}
  ELSE {U32Zero}

InitEnc ==
  /\ this = esp_packet_create_from_packet(<<>>)
  /\ highest = InitialWindow.highest
  /\ bitmap = InitialWindow.bitmap
  /\ prim \in Prims
  /\ cursor \in Cursors(prim)
  /\ op = "create"
  /\ status = SUCCESS
  /\ calls = {}
  /\ input = NoArrival
  /\ pre = [this |-> esp_packet_create_from_packet(<<>>),
            highest |-> InitialWindow.highest,
            bitmap |-> InitialWindow.bitmap,
            cursor |-> cursor,
            okData |-> {},
            committed |-> <<>>,
            emitted |-> <<>>,
            op |-> "create",
            status |-> SUCCESS,
            pending |-> <<>>,
            cont |-> [c \in Conts |-> NoContainer],
            ips |-> <<>>,
            extracted |-> {}]
  /\ before = "none"
  /\ committed = <<>>
  /\ okData = {}
  /\ sent = {}
  /\ thr = [t \in Threads |-> Idle]
  /\ ops = 0
  /\ freed = {}
  /\ issued = <<>>
  /\ emitted = <<>>
  /\ hdr = NoHeader
  /\ pending = <<>>
  /\ cont = [c \in Conts |-> NoContainer]
  /\ ips = <<>>
  /\ extracted = {}
  /\ readers = 0
  /\ dyn = NoSocket
  /\ imcv = NotLoaded

\* an inner packet of len bytes, IPv4 or IPv6; none for no bytes
InnerPacket(len) ==
  IF len = 0 THEN NULL
  ELSE ip_packet_create([i \in 1..len |->
         IF i = 1 THEN (IF len % 2 = 1 THEN 69 ELSE 96)
         ELSE (37 * i + len) % 256])

LongPayloadLens == {14, 20, 40}

PayloadLens == (0..MaxPayloadLen) \cup LongPayloadLens

EncSpis == {Spi, Spi2, U32Zero, <<0, 1>>}

\* the bytes the RNG leaves in an IV region of len bytes
IvBytes(len) == [i \in 1..len |-> (17 * i + 3) % 256]

\* every combination of failing collaborators
EncEnvs ==
  {[prim |-> prim, rng |-> r, crypter |-> c, signer |-> g,
    iv |-> IvBytes(prim.iv_size)] :
     r \in {"none", "short", "ok"}, c \in BOOLEAN, g \in BOOLEAN}

WorkingEnv ==
  [prim |-> prim, rng |-> "ok", crypter |-> TRUE, signer |-> TRUE,
   iv |-> IvBytes(prim.iv_size)]

\* esp_packet_create_from_payload
EncCreate ==
  /\ ops < MaxEncOps
  /\ op = "encrypt" \/ ops = 0
  /\ \E len \in PayloadLens :
       this' = esp_packet_create_from_payload(InnerPacket(len))
  /\ op' = "create"
  /\ status' = SUCCESS
  /\ calls' = {}
  /\ input' = NoArrival
  /\ pre' = Snapshot
  /\ freed' = {}
  /\ UNCHANGED <<highest, bitmap, cursor, before, committed, okData, sent,
                 thr, ops, prim, issued, emitted, hdr,
                 pending, cont, ips, extracted,
                 readers, dyn, imcv>>

\* encrypt with working collaborators
EncEncrypt ==
  /\ ops < MaxEncOps
  /\ op = "create"
  /\ \E spi \in IF Len(this.payload.encoding) = 1 THEN EncSpis ELSE {Spi} :
       EncryptCall(spi, WorkingEnv)

\* encrypt with collaborators that fail
EncEncryptFailing ==
  /\ ops < MaxEncOps
  /\ op = "create"
  /\ Len(this.payload.encoding) = 1
  /\ \E e \in EncEnvs \ {WorkingEnv} : EncryptCall(Spi, e)

\* encrypt is called once more on the container that holds the datagram
\* just emitted
EncEncryptAgain ==
  /\ ops < MaxEncOps
  /\ op = "encrypt"
  /\ status = SUCCESS
  /\ input.spi = Spi
  /\ Len(this.payload.encoding) = 1
  /\ \E e \in EncEnvs : EncryptCall(Spi, e)

\* a container receives the first n bytes of the datagram just emitted
EncReceivePrefix ==
  /\ op = "encrypt"
  /\ status = SUCCESS
  /\ Len(this.payload.encoding) = 1
  /\ \E n \in {3, 4, 7, 8} :
       this' = esp_packet_create_from_packet(Take(this.packet, n))
  /\ op' = "receive"
  /\ status' = SUCCESS
  /\ calls' = {}
  /\ pre' = Snapshot
  /\ freed' = {}
  /\ UNCHANGED <<highest, bitmap, cursor, before, committed, okData, sent,
                 thr, ops, prim, issued, emitted, hdr, input,
                 pending, cont, ips, extracted,
                 readers, dyn, imcv>>

\* parse_header on the container at hand; the caller's variable holds
\* 0xFFFFFFFF before the call
EncParseHeader ==
  /\ op \in {"encrypt", "receive"}
  /\ hdr' = parse_header(this, U32Max)
  /\ op' = "parse_header"
  /\ status' = SUCCESS
  /\ calls' = {}
  /\ pre' = Snapshot
  /\ freed' = {}
  /\ UNCHANGED <<this, highest, bitmap, cursor, before, committed, okData,
                 sent, thr, ops, prim, issued, emitted, input,
                 pending, cont, ips, extracted,
                 readers, dyn, imcv>>

NextEnc ==
  \/ EncCreate
  \/ EncEncrypt
  \/ EncEncryptFailing
  \/ EncEncryptAgain
  \/ EncReceivePrefix
  \/ EncParseHeader

SpecEnc == InitEnc /\ [][NextEnc]_vars

\* ------------------------------------------------------------ SpecCont
\* a caller with up to two containers: the first is made from a datagram or
\* from an inner packet, the second is a clone of the first; the operations
\* of esp_packet_t are called on either in any order
NextHeaders == {IPPROTO_IPIP, IPPROTO_IPV6, 0, 17, 255}

\* datagrams of the peer whose trailer carries the next header nh
NhDatagram(seq, nh) == Datagram(seq, <<69, 1, 1, nh>>)

ContDatagrams ==
  {NhDatagram(U32(1), nh) : nh \in NextHeaders}
    \cup {Datagram(U32(1), BadPadPlain)}

\* what set_data is given
ContData == {NhDatagram(U32(2), 17), <<1, 2, 3>>}

ContEnv ==
  [prim |-> DefaultPrim, rng |-> "ok", crypter |-> TRUE, signer |-> TRUE,
   iv |-> Iv0]

Live(c) == cont[c].state = "live"

\* what every operation on the container c records: k and h are the
\* container and the inner packets it leaves
ContStep(name, c, k, h, st, invoked) ==
  /\ ops < MaxContOps
  /\ ops' = ops + 1
  /\ op' = name
  /\ input' = [target |-> c]
  /\ status' = st
  /\ calls' = invoked
  /\ cont' = [cont EXCEPT ![c] = k]
  /\ ips' = h
  /\ this' = IF k.state = "live" THEN View(k, h) ELSE this
  /\ pre' = [Snapshot EXCEPT !.this = IF Live(c) THEN View(cont[c], ips)
                                      ELSE this]
  /\ freed' = {}
  /\ UNCHANGED <<before, committed, okData, sent, thr, prim, issued, emitted,
                 hdr, pending, dyn, imcv>>

ContFromPacket ==
  /\ cont[1].state = "none"
  /\ \E d \in ContDatagrams :
       LET r == Created(esp_packet_create_from_packet(d), "peer", "local",
                        ips)
       IN  ContStep("from_packet", 1, r.this, r.ips, SUCCESS, {})
  /\ UNCHANGED <<highest, bitmap, cursor, extracted, readers>>

ContFromPayload ==
  /\ cont[1].state = "none"
  /\ \E p \in Payloads :
       LET r == Created(esp_packet_create_from_payload(p), "local", "peer",
                        ips)
       IN  ContStep("from_payload", 1, r.this, r.ips, SUCCESS, {})
  /\ UNCHANGED <<highest, bitmap, cursor, extracted, readers>>

ContClone ==
  /\ Live(1)
  /\ cont[2].state = "none"
  /\ LET r == clone(cont[1], ips)
     IN  ContStep("clone", 2, r.this, r.ips, SUCCESS, {})
  /\ UNCHANGED <<highest, bitmap, cursor, extracted, readers>>

ContDecrypt(c) ==
  /\ Live(c)
  /\ LET r == decrypt(View(cont[c], ips), Window, WorkingPrimitives)
         s == Store(cont[c], ips, r.this)
     IN  /\ ContStep("decrypt", c, s.this, s.ips, r.status, r.calls)
         /\ highest' = r.win.highest
         /\ bitmap' = r.win.bitmap
         /\ readers' = readers + r.readers
  /\ UNCHANGED <<cursor, extracted>>

ContEncrypt(c) ==
  /\ Live(c)
  /\ LET r == encrypt(View(cont[c], ips), cursor, Spi, ContEnv)
         s == Store(cont[c], ips, r.this)
     IN  /\ ContStep("encrypt", c, s.this, s.ips, r.status, r.calls)
         /\ cursor' = r.cursor
  /\ UNCHANGED <<highest, bitmap, extracted, readers>>

ContExtractPayload(c) ==
  /\ Live(c)
  /\ LET r == extract_payload(cont[c])
     IN  /\ ContStep("extract_payload", c, r.this, ips, SUCCESS, {})
         /\ extracted' = extracted \cup ({r.payload} \ {0})
  /\ UNCHANGED <<highest, bitmap, cursor, readers>>

ContSetData(c) ==
  /\ Live(c)
  /\ \E d \in ContData :
       ContStep("set_data", c, set_data(cont[c], d), ips, SUCCESS, {})
  /\ UNCHANGED <<highest, bitmap, cursor, extracted, readers>>

ContSkipBytes(c) ==
  /\ Live(c)
  /\ Len(cont[c].packet) >= 8
  /\ ContStep("skip_bytes", c, skip_bytes(cont[c], 8), ips, SUCCESS, {})
  /\ UNCHANGED <<highest, bitmap, cursor, extracted, readers>>

ContDestroy(c) ==
  /\ Live(c)
  /\ ContStep("destroy", c, [state |-> "destroyed"], destroy(cont[c], ips),
              SUCCESS, {})
  /\ UNCHANGED <<highest, bitmap, cursor, extracted, readers>>

NextCont ==
  \/ ContFromPacket
  \/ ContFromPayload
  \/ ContClone
  \/ \E c \in Conts : ContDecrypt(c)
  \/ \E c \in Conts : ContEncrypt(c)
  \/ \E c \in Conts : ContExtractPayload(c)
  \/ \E c \in Conts : ContSetData(c)
  \/ \E c \in Conts : ContSkipBytes(c)
  \/ \E c \in Conts : ContDestroy(c)

SpecCont == Init /\ [][NextCont]_vars

\* ------------------------------------------------------------ SpecSeq
\* encrypt invocations of several threads on one outbound SA, each on a
\* container of its own.  next_seqno is one step on the SA; what follows it
\* in encrypt works on the container alone and ends, on SUCCESS, with the
\* datagram emitted.
SeqUnchanged ==
  UNCHANGED <<this, highest, bitmap, op, status, calls, input, pre, before,
              committed, okData, prim, freed, hdr,
                 pending, cont, ips, extracted,
                 readers, dyn, imcv>>

\* thread t enters encrypt: the raw data is emptied and next_seqno is called
SeqEnter(t) ==
  /\ ops < MaxSeqOps
  /\ thr[t].pc \in {"idle", "done"}
  /\ \E len \in {1, 2} :
       LET c == esp_packet_create_from_payload(InnerPacket(len))
           cleared == [c EXCEPT !.packet = <<>>]
           next == next_seqno(cursor)
       IN  /\ cursor' = next.cursor
           /\ issued' = IF next.ok THEN Append(issued, next.seqno)
                         ELSE issued
           /\ thr' = [thr EXCEPT ![t] =
                        IF next.ok
                        THEN [pc |-> "create_rng", this |-> cleared,
                              seq |-> next.seqno, status |-> "none",
                              seen |-> emitted]
                        ELSE [pc |-> "done", this |-> cleared,
                              seq |-> next.seqno, status |-> FAILED,
                              seen |-> emitted]]
  /\ ops' = ops + 1
  /\ UNCHANGED <<emitted, sent>>
  /\ SeqUnchanged

\* thread t goes through the rest of encrypt and returns
SeqFinish(t) ==
  /\ thr[t].pc = "create_rng"
  /\ \E e \in {WorkingEnv, [WorkingEnv EXCEPT !.crypter = FALSE]} :
       LET r == encrypt_rng(thr[t].this,
                            [ok |-> TRUE, seqno |-> thr[t].seq,
                             cursor |-> thr[t].seq], Spi, e)
       IN  /\ thr' = [thr EXCEPT ![t] =
                        [@ EXCEPT !.pc = "done", !.this = r.this,
                                  !.status = r.status]]
           /\ emitted' = IF r.status = SUCCESS
                         THEN Append(emitted, thr[t].seq)
                         ELSE emitted
           /\ sent' = IF r.status = SUCCESS
                      THEN sent \cup {[data |-> r.this.packet,
                                       seq |-> thr[t].seq,
                                       spi |-> Spi,
                                       payload |-> thr[t].this.payload,
                                       next_header |-> thr[t].this.next_header]}
                      ELSE sent
  /\ UNCHANGED <<cursor, issued, ops>>
  /\ SeqUnchanged

NextSeq == \E t \in Threads : SeqEnter(t) \/ SeqFinish(t)

SpecSeq == Init /\ [][NextSeq]_vars

\* ------------------------------------------------------------ properties
\* the datagram the last decrypt call was given
In == pre.this.packet

PreWindow == [highest |-> pre.highest, bitmap |-> pre.bitmap]

\* the last decrypt call was given a datagram whose length fits the layout
FitsLayout ==
  /\ Len(In) >= 8 + IvSize + IcvSize
  /\ (Len(In) - 8 - IvSize - IcvSize) % BlockSize = 0

\* the sequence number carried by the datagram of the last decrypt call
InSeq == read_uint32(SubSeq(In, 5, 8))

\* C1: once decrypt has returned SUCCESS for a datagram, every later decrypt
\* of the same bytes on the same SA returns VERIFY_ERROR and leaves highest
\* as it was before that call.
C1_ReplayRejected ==
  (op = "decrypt" /\ In \in pre.okData)
    => (status = VERIFY_ERROR /\ highest = pre.highest)

C1_Witness ==
  /\ op = "decrypt"
  /\ In \in pre.okData
  /\ status = VERIFY_ERROR
  /\ highest = U32(1)

\* C2: a MAC-invalid datagram carrying highest + 10 leaves highest as it was,
\* and the decrypt that follows it, of a valid datagram carrying highest + 1
\* with working primitives, returns SUCCESS.
C2_CommitAfterVerify ==
  /\ ForgedAhead => (status = FAILED /\ highest = pre.highest)
  /\ (/\ op = "decrypt"
      /\ before = "forged_ahead"
      /\ input.kind = "valid"
      /\ input.crypter
      /\ pre.highest # U32Max
      /\ input.seq = U32Add(pre.highest, 1)
      /\ In = Valid(input.seq))
       => (status = SUCCESS /\ highest = input.seq)

C2_Witness ==
  /\ op = "decrypt"
  /\ before = "forged_ahead"
  /\ input.kind = "valid"
  /\ input.seq = U32Add(pre.highest, 1)
  /\ In = Valid(input.seq)
  /\ status = SUCCESS

C5_Original ==
  (op = "decrypt" /\ status = VERIFY_ERROR)
    => (calls = {} /\ Window = PreWindow /\ this = pre.this)

\* C5 as amended: whenever decrypt returns VERIFY_ERROR no primitive has been
\* invoked and the window, the raw bytes and the next header are as they were
\* before the call; the decoded payload is none, whatever it was before.
C5_CheckBeforeKeys ==
  (op = "decrypt" /\ status = VERIFY_ERROR)
    => /\ calls = {}
       /\ Window = PreWindow
       /\ this.packet = pre.this.packet
       /\ this.next_header = pre.this.next_header
       /\ this.payload = NULL

C5_Witness ==
  /\ op = "decrypt"
  /\ status = VERIFY_ERROR
  /\ pre.this.payload.present
  /\ this.next_header = IPPROTO_IPIP

\* C10: for a datagram whose length fits the layout, decrypt returns
\* VERIFY_ERROR exactly when its sequence number is 0, or is not above highest
\* and is either W or more below it or has its bit set; such a call leaves
\* highest and the bitmap as they were.  A datagram carrying sequence number 0
\* is thus rejected in every window state.
C10_CheckDecides ==
  (op = "decrypt" /\ FitsLayout) =>
    /\ status = VERIFY_ERROR <=>
         ~(/\ InSeq # U32Zero
           /\ \/ U32Lt(pre.highest, InSeq)
              \/ /\ U32SubCap(pre.highest, InSeq, W) < W
                 /\ U32SubCap(pre.highest, InSeq, W) \notin pre.bitmap)
    /\ status = VERIFY_ERROR => Window = PreWindow
    /\ InSeq = U32Zero => status = VERIFY_ERROR

C10_Witness ==
  /\ op = "decrypt"
  /\ input.kind = "valid"
  /\ InSeq = U32Zero
  /\ PreWindow = InitialWindow
  /\ status = VERIFY_ERROR

\* C3 as stated: for every valid datagram and every single-bit flip in it,
\* decrypt of the modified datagram returns FAILED and leaves the window
\* unchanged.
C3_Original ==
  (op = "decrypt" /\ input.kind = "flip")
    => (status = FAILED /\ Window = PreWindow)

\* C3 as amended: decrypt of the modified datagram never returns SUCCESS and
\* leaves the window unchanged; it returns FAILED when the sequence number
\* the modified datagram carries passes the window check, and VERIFY_ERROR
\* when it does not, which a flip in the sequence bytes can bring about.  A
\* flip outside the sequence bytes of a datagram whose sequence number passes
\* the check returns FAILED.
C3_MacRejection ==
  (op = "decrypt" /\ input.kind = "flip") =>
    /\ status = IF verify_seqno(PreWindow, InSeq) THEN FAILED
                ELSE VERIFY_ERROR
    /\ Window = PreWindow
    /\ ~this.payload.present
    /\ (input.byte \notin 5..8 /\ verify_seqno(PreWindow, input.seq))
         => status = FAILED

C3_Witness ==
  /\ op = "decrypt"
  /\ input.kind = "flip"
  /\ input.byte \in 5..8
  /\ verify_seqno(PreWindow, input.seq)
  /\ status = VERIFY_ERROR
  /\ pre.highest # U32Zero

\* the sequence numbers in a sequence of them
Range(q) == {q[i] : i \in 1..Len(q)}

\* the greatest of the sequence numbers committed before the last call, or 0
PreMax ==
  IF pre.committed = <<>> THEN U32Zero
  ELSE CHOOSE m \in Range(pre.committed) :
         \A s \in Range(pre.committed) : ~U32Lt(m, s)

\* C8: no sequence number is accepted twice.  A committed sequence number
\* never passes check again; the sequence numbers committed are pairwise
\* different; a SUCCESS commits the sequence number of its datagram; and a
\* datagram carrying a sequence number committed earlier is rejected with
\* VERIFY_ERROR.
C8_NoDoubleAccept ==
  /\ \A i \in 1..Len(committed) : ~verify_seqno(Window, committed[i])
  /\ \A i, j \in 1..Len(committed) : i # j => committed[i] # committed[j]
  /\ (op = "decrypt" /\ status = SUCCESS)
       => (committed = Append(pre.committed, InSeq)
           /\ InSeq \notin Range(pre.committed))
  /\ (op = "decrypt" /\ FitsLayout /\ InSeq \in Range(pre.committed))
       => status = VERIFY_ERROR

C8_Witness ==
  /\ op = "decrypt"
  /\ pre.committed = <<U32(5), U32(3), U32(4)>>
  /\ Cardinality(pre.okData) = 3
  /\ input.kind = "valid"
  /\ InSeq = U32(3)
  /\ status = VERIFY_ERROR

\* C9 as stated, with M the greatest sequence number committed so far: a
\* datagram whose sequence number is W or more below M is rejected, and a
\* valid datagram whose sequence number was never committed and is less than
\* W below M (or above M) is accepted.
C9_Original ==
  (op = "decrypt" /\ FitsLayout /\ pre.committed # <<>>) =>
    /\ pre.highest = PreMax
    /\ (U32Lt(InSeq, PreMax) /\ U32SubCap(PreMax, InSeq, W) >= W)
         => status = VERIFY_ERROR
    /\ (/\ input.kind = "valid" /\ input.crypter
        /\ InSeq \notin Range(pre.committed)
        /\ U32Lt(PreMax, InSeq) \/ U32SubCap(PreMax, InSeq, W) < W)
         => status = SUCCESS

\* C9 as amended: the same, for sequence numbers other than 0; sequence
\* number 0 is always rejected.  With nothing committed yet, M is taken
\* as 0.
C9_WindowBehaviour ==
  (op = "decrypt" /\ FitsLayout) =>
    /\ pre.highest = PreMax
    /\ (U32Lt(InSeq, PreMax) /\ U32SubCap(PreMax, InSeq, W) >= W)
         => status = VERIFY_ERROR
    /\ (/\ input.kind = "valid" /\ input.crypter
        /\ InSeq # U32Zero
        /\ InSeq \notin Range(pre.committed)
        /\ U32Lt(PreMax, InSeq) \/ U32SubCap(PreMax, InSeq, W) < W)
         => status = SUCCESS
    /\ InSeq = U32Zero => status = VERIFY_ERROR

C9_Witness ==
  /\ op = "decrypt"
  /\ W = 64
  /\ PreMax = U32(200)
  /\ input.kind = "valid"
  /\ InSeq = U32(100)
  /\ status = VERIFY_ERROR

\* what went into the datagram the last decrypt call was given
Sent == CHOOSE m \in sent : m.data = In

\* C7: with a matching pair of SAs and working primitives, a successful
\* encrypt advances the egress cursor by exactly 1 and emits a datagram that
\* carries the new cursor; and the decrypt of an emitted datagram that holds
\* an inner packet and is delivered for the first time returns SUCCESS with
\* a payload byte-identical to the one encrypted and with the same next
\* header.
C7_RoundTrip ==
  /\ (op = "encrypt" /\ status = SUCCESS)
       => /\ cursor = U32Add(pre.cursor, 1)
          /\ read_uint32(SubSeq(this.packet, 5, 8)) = cursor
  /\ (op = "decrypt" /\ input.kind = "sent")
       => /\ \E m \in sent : m.data = In
          /\ (Sent.payload.present /\ Sent.seq \notin Range(pre.committed))
               => /\ status = SUCCESS
                  /\ this.payload.present
                  /\ this.payload.encoding = Sent.payload.encoding
                  /\ this.payload = Sent.payload
                  /\ this.next_header = Sent.next_header
                  /\ this.next_header \in {IPPROTO_IPIP, IPPROTO_IPV6}

C7_Witness ==
  /\ op = "decrypt"
  /\ input.kind = "sent"
  /\ status = SUCCESS
  /\ this.payload.encoding = <<96, 1>>
  /\ this.next_header = IPPROTO_IPV6
  /\ pre.this.payload = NULL
  /\ cursor = U32(2)

\* C6: of the decrypt invocations of different threads on one SA that
\* carry the same sequence number, at most one returns SUCCESS.
C6_AtMostOneSuccess ==
  \A t1, t2 \in Threads :
    (t1 # t2 /\ thr[t1].pc = "done" /\ thr[t2].pc = "done"
       /\ thr[t1].seq = thr[t2].seq)
      => ~(thr[t1].status = SUCCESS /\ thr[t2].status = SUCCESS)

\* ------------------------------------------------- properties of decrypt
\* the ciphertext and the IV of the datagram the last decrypt call was given
InCiphertext == SubSeq(In, 9 + IvSize, Len(In) - IcvSize)

InIv == SubSeq(In, 9, 8 + IvSize)

\* the plaintext under it
InPlain == crypter_decrypt(InCiphertext, InIv)

\* C13: decrypt returns PARSE_ERROR, with neither the window consulted nor
\* the signer or the crypter invoked, for every datagram shorter than
\* 8 + iv_len + icv_len + block_size (shorter than the header, or with an
\* empty ciphertext) or whose ciphertext length is not a multiple of
\* block_size.
C13_LengthValidation ==
  (op = "decrypt"
     /\ \/ Len(In) < 8 + IvSize + IcvSize + BlockSize
        \/ (Len(In) - 8 - IvSize - IcvSize) % BlockSize # 0)
    => (status = PARSE_ERROR /\ calls = {} /\ Window = PreWindow)

\* C15: of a MAC-valid datagram that is decrypted, when the pad length byte p
\* of the plaintext has p + 2 greater than the plaintext length, or one of
\* the p pad bytes differs from its index counted from 1, decrypt returns
\* PARSE_ERROR and the container holds no payload; when the pad bytes are
\* exactly 1..p (also for p = 0) the padding passes, and decrypt returns
\* SUCCESS with the bytes before the padding as payload when these begin an
\* IPv4 or IPv6 packet, PARSE_ERROR without payload when they do not.
C15_PaddingRejection ==
  (op = "decrypt" /\ input.kind = "tail") =>
    LET n == Len(InPlain)
        p == InPlain[n - 1]
        deviates == p + 2 > n \/ \E i \in 1..p : InPlain[n - 2 - p + i] # i
        inner == Take(InPlain, n - 2 - p)
    IN  /\ "crypter" \in calls
        /\ InPlain = TailPlain(input.byte, input.bit, input.val)
        /\ deviates => (status = PARSE_ERROR /\ this.payload = NULL)
        /\ ~deviates =>
             IF Len(inner) > 0 /\ inner[1] \div 16 \in {4, 6}
             THEN /\ status = SUCCESS
                  /\ this.payload.present
                  /\ this.payload.encoding = inner
                  /\ this.next_header = InPlain[n]
             ELSE status = PARSE_ERROR /\ this.payload = NULL

C15_Witness ==
  /\ op = "decrypt"
  /\ input.kind = "tail"
  /\ InPlain = <<69, 0, 1, 2, 4, 4, 4, IPPROTO_IPIP>>
  /\ status = PARSE_ERROR
  /\ this.payload = NULL
  /\ pre.this.payload = NULL
  /\ ops = 2

\* C20: on every decrypt failure every plaintext buffer released during the
\* call holds nothing but zeros; so for a plaintext ending in the pad bytes
\* 2, 4, 3 under pad length 3, for which decrypt returns PARSE_ERROR.
C20_WipedOnFailure ==
  /\ (op = "decrypt" /\ status # SUCCESS)
       => \A b \in freed : \A i \in 1..Len(b) : b[i] = 0
  /\ (op = "decrypt" /\ input.kind = "badpad" /\ "crypter" \in calls)
       => status = PARSE_ERROR

\* C22: after a decrypt that returned SUCCESS the inner packet and the next
\* header are populated: the payload is the inner packet decoded from the
\* plaintext without its trailer, the next header is the last byte of the
\* plaintext; and the raw bytes of the container are still, byte for byte,
\* the datagram that was received.
C22_SuccessPopulates ==
  (op = "decrypt" /\ status = SUCCESS)
    => /\ this.payload # NULL
       /\ this.payload.present
       /\ this.payload
            = ip_packet_create(Take(InPlain,
                                    Len(InPlain) - InPlain[Len(InPlain) - 1]
                                      - 2))
       /\ this.next_header = InPlain[Len(InPlain)]
       /\ this.packet = In
       /\ this.packet = Bytes(input)

C22_Witness ==
  /\ op = "decrypt"
  /\ status = SUCCESS
  /\ input.kind = "valid"
  /\ input.seq = U32(2)
  /\ this.packet = Valid(U32(2))
  /\ this.packet # InPlain
  /\ this.payload.present
  /\ this.next_header = IPPROTO_IPIP

\* C26: an error is fatal for the failing packet only.  When the decrypt
\* call before ended in an error and the call at hand is given a MAC-valid,
\* well-formed datagram whose sequence number check accepts, with
\* primitives that work, it returns SUCCESS.
C26_FatalForPacketOnly ==
  (/\ op = "decrypt"
   /\ pre.op = "decrypt"
   /\ pre.status # SUCCESS
   /\ input.kind = "valid"
   /\ input.crypter
   /\ input.signer = "ok"
   /\ verify_seqno(PreWindow, InSeq))
    => status = SUCCESS

\* ------------------------------------------------- properties of encrypt
\* what the last encrypt call was given
EncPayloadLen == Len(pre.this.payload.encoding)

EncIv == SubSeq(this.packet, 9, 8 + prim.iv_size)

\* the plaintext under the datagram the last encrypt call emitted
EncPlain ==
  crypter_decrypt(SubSeq(this.packet, 9 + prim.iv_size,
                         Len(this.packet) - prim.icv_size), EncIv)

\* the pad length byte of that plaintext
EncPadLength == EncPlain[Len(EncPlain) - 1]

AllZero(b) == \A i \in 1..Len(b) : b[i] = 0

\* C12: when the cursor of the SA has reached 0xFFFFFFFF, encrypt returns
\* FAILED after next_seqno alone, emits no datagram (the raw bytes are left
\* empty and nothing is added to what was emitted) and leaves the cursor at
\* 0xFFFFFFFF, neither 0 nor 1; so every later encrypt on the SA fails the
\* same way.  The value 0xFFFFFFFF itself is issued once.
C12_SequenceCycle ==
  /\ (op = "encrypt" /\ pre.cursor = U32Max) =>
       /\ status = FAILED
       /\ calls = {"next_seqno"}
       /\ this.packet = <<>>
       /\ emitted = pre.emitted
       /\ cursor = U32Max
  /\ (op = "encrypt" /\ pre.cursor # U32Max) => cursor = U32Add(pre.cursor, 1)
  /\ \A i, j \in 1..Len(emitted) : i < j => U32Lt(emitted[i], emitted[j])
  /\ U32Max \in Range(issued) => cursor = U32Max

C12_Witness ==
  /\ op = "encrypt"
  /\ pre.cursor = U32Max
  /\ pre.emitted = <<U32Max>>
  /\ input.env = WorkingEnv
  /\ status = FAILED
  /\ ops = 2

\* C14: the pad length encrypt chooses is block_size - ((payload_len + 2) mod
\* block_size): it lies in 1..block_size, makes payload_len + 2 + pad_length
\* a multiple of block_size, and is a whole block when payload_len + 2 is
\* already a multiple of block_size.  The plaintext holds that many pad
\* bytes and the pad length byte holds that value.
C14_PaddingLaw ==
  (op = "encrypt" /\ status = SUCCESS) =>
    LET b == prim.block_size
        n == EncPayloadLen
        p == EncPadLength
    IN  /\ p = b - ((n + 2) % b)
        /\ 1 <= p /\ p <= b
        /\ (n + 2 + p) % b = 0
        /\ (n + 2) % b = 0 => p = b
        /\ Len(EncPlain) = n + 2 + p
        /\ \A i \in 1..p : EncPlain[n + i] = i

C14_Witness ==
  /\ op = "encrypt"
  /\ status = SUCCESS
  /\ prim.block_size = 16
  /\ EncPayloadLen = 14
  /\ EncPadLength = 16
  /\ Len(EncPlain) = 32

\* C16: whenever encrypt returns SUCCESS the raw bytes are 8 + iv_len +
\* ciphertext_len + icv_len long, with ciphertext_len = payload_len + 2 +
\* pad_length a non-zero multiple of block_size that is at least 2; the first
\* four bytes are those of the SPI, the next four the sequence number issued
\* to the call, most significant byte first.  With block = 16, iv = 16,
\* icv = 12 and a payload of 20 bytes the length is 68.
C16_DatagramLayout ==
  (op = "encrypt" /\ status = SUCCESS) =>
    LET b == prim.block_size
        n == EncPayloadLen
        ciphertext_len == n + 2 + (b - ((n + 2) % b))
    IN  /\ Len(this.packet) =
             8 + prim.iv_size + ciphertext_len + prim.icv_size
        /\ ciphertext_len = n + 2 + EncPadLength
        /\ ciphertext_len > 0
        /\ ciphertext_len % b = 0
        /\ ciphertext_len >= 2
        /\ Take(this.packet, 4) = HostBytes(input.spi)
        /\ cursor = U32Add(pre.cursor, 1)
        /\ SubSeq(this.packet, 5, 8) =
             <<cursor[1] \div 256, cursor[1] % 256,
               cursor[2] \div 256, cursor[2] % 256>>
        /\ (prim = Prim(16, 16, 12) /\ n = 20) => Len(this.packet) = 68

C16_Witness ==
  /\ op = "encrypt"
  /\ status = SUCCESS
  /\ prim = Prim(16, 16, 12)
  /\ EncPayloadLen = 20
  /\ Len(this.packet) = 68
  /\ input.spi = Spi
  /\ Take(this.packet, 8) = <<239, 190, 173, 222, 0, 0, 0, 1>>

\* C17: the first four bytes of an emitted datagram are the bytes of the SPI
\* handed to encrypt, as they lie in memory (network byte order);
\* parse_header returns TRUE exactly when the container holds 8 bytes or
\* more, and then with that same SPI value.
C17_SpiRoundTrip ==
  /\ (op = "encrypt" /\ status = SUCCESS)
       => Take(this.packet, 4) = HostBytes(input.spi)
  /\ op = "parse_header" =>
       /\ hdr.ok <=> Len(this.packet) >= 8
       /\ hdr.ok => (hdr.spi = input.spi
                     /\ Take(this.packet, 4) = HostBytes(hdr.spi))

C17_Witness ==
  /\ op = "parse_header"
  /\ hdr.ok
  /\ hdr.spi = Spi2
  /\ input.spi = Spi2
  /\ Take(this.packet, 4) = <<4, 3, 2, 1>>
  /\ Len(this.packet) > 8

\* C18: encrypt checks, in this order, the cursor (FAILED when it has
\* cycled), the availability of an RNG (NOT_FOUND), the filling of the IV
\* (FAILED), the encryption (FAILED) and the MAC (FAILED), stops at the first
\* that fails, and returns SUCCESS when none does; NOT_FOUND is returned
\* exactly when the creation of the RNG is reached and fails; PARSE_ERROR
\* and VERIFY_ERROR are never returned.
C18_FailureTaxonomy ==
  op = "encrypt" =>
    LET e == input.env
        cycled == pre.cursor = U32Max
    IN  /\ status = IF cycled THEN FAILED
                    ELSE IF e.rng = "none" THEN NOT_FOUND
                    ELSE IF e.rng = "short" THEN FAILED
                    ELSE IF ~e.crypter THEN FAILED
                    ELSE IF ~e.signer THEN FAILED
                    ELSE SUCCESS
        /\ status \notin {PARSE_ERROR, VERIFY_ERROR}
        /\ status = NOT_FOUND <=> (~cycled /\ e.rng = "none")
        /\ calls = IF cycled THEN {"next_seqno"}
                   ELSE IF e.rng = "none" THEN {"next_seqno", "create_rng"}
                   ELSE IF e.rng = "short"
                   THEN {"next_seqno", "create_rng", "get_bytes"}
                   ELSE IF ~e.crypter
                   THEN {"next_seqno", "create_rng", "get_bytes", "crypter"}
                   ELSE {"next_seqno", "create_rng", "get_bytes", "crypter",
                         "signer"}

C18_Witness ==
  /\ op = "encrypt"
  /\ pre.cursor # U32Max
  /\ input.env.rng = "none"
  /\ ~input.env.crypter
  /\ ~input.env.signer
  /\ status = NOT_FOUND
  /\ calls = {"next_seqno", "create_rng"}

\* C19: on every encrypt failure after the output buffer has been allocated
\* (IV, encryption, MAC) the buffer released holds nothing but zeros.
C19_WipedOnFailure ==
  (op = "encrypt" /\ status # SUCCESS) => \A b \in freed : AllZero(b)

\* C11 as stated: the k-th successful next_seqno returns k, so that no value
\* is issued twice and 0 is never issued, and every emitted datagram carries
\* a sequence number strictly greater than those of all datagrams emitted
\* before it, also when the encrypt calls come from concurrent callers.
C11_Original ==
  /\ \A k \in 1..Len(issued) : issued[k] = U32(k)
  /\ \A i, j \in 1..Len(emitted) : i < j => U32Lt(emitted[i], emitted[j])

\* C11 as amended: the k-th successful next_seqno returns k; every emitted
\* datagram carries the value issued to its encrypt call, so that no two
\* emitted datagrams carry the same sequence number and none carries 0; and
\* a datagram carries a sequence number greater than those of all datagrams
\* that had been emitted when its encrypt call began.  Datagrams of encrypt
\* calls that overlap may be emitted in either order.
C11_IssuedAscending ==
  /\ \A k \in 1..Len(issued) : issued[k] = U32(k)
  /\ cursor = U32(Len(issued))
  /\ Range(emitted) \subseteq Range(issued)
  /\ U32Zero \notin Range(emitted)
  /\ \A i, j \in 1..Len(emitted) : i # j => emitted[i] # emitted[j]
  /\ \A t \in Threads :
       (thr[t].pc = "done" /\ thr[t].status = SUCCESS) =>
         /\ read_uint32(SubSeq(thr[t].this.packet, 5, 8)) = thr[t].seq
         /\ thr[t].seq \in Range(emitted)
         /\ \A s \in Range(thr[t].seen) : U32Lt(s, thr[t].seq)

C11_Witness ==
  /\ emitted = <<U32(2), U32(1)>>
  /\ issued = <<U32(1), U32(2), U32(3)>>
  /\ \E t \in Threads :
       /\ thr[t].pc = "done"
       /\ thr[t].status = SUCCESS
       /\ thr[t].seq = U32(1)
       /\ thr[t].seen = <<>>

\* ------------------------------------------------- properties of the window
\* sequence numbers around those that are received in SpecWin
Probes ==
  {U32(n) : n \in (0..8) \cup (96..104) \cup (132..140) \cup (196..204)}

\* s is W or more below h
BelowWindow(h, s) == U32Lt(s, h) /\ U32SubCap(h, s, W) >= W

\* C28: a commit of seq changes the acceptance of no other sequence number
\* except by sliding the window.  After a decrypt call that has committed
\* the sequence number of its datagram, the new highest is the greater of
\* the old one and seq, and for every s other than seq, check(s) is true
\* exactly when it was true before and s is above the new highest or less
\* than W below it; so the bits of the sequence numbers committed earlier
\* that are still less than W below the new highest are still set.
C28_CommitFrame ==
  (op = "decrypt" /\ Window # PreWindow) =>
    /\ verify_seqno(PreWindow, InSeq)
    /\ highest = IF U32Lt(pre.highest, InSeq) THEN InSeq ELSE pre.highest
    /\ ~verify_seqno(Window, InSeq)
    /\ \A s \in Probes \ {InSeq} :
         verify_seqno(Window, s)
           <=> (verify_seqno(PreWindow, s) /\ ~BelowWindow(highest, s))
    /\ \A s \in Range(pre.committed) :
         ~BelowWindow(highest, s) => ~verify_seqno(Window, s)

C28_Witness ==
  /\ op = "decrypt"
  /\ pre.committed = <<U32(100), U32(137)>>
  /\ InSeq = U32(200)
  /\ highest = U32(200)
  /\ bitmap = {0, 63}
  /\ verify_seqno(PreWindow, U32(136))
  /\ ~verify_seqno(Window, U32(136))
  /\ verify_seqno(Window, U32(138))

\* C30: highest never decreases, and whenever it is above 0 its own bit is
\* set, so that check(highest) is false.
C30_WindowForward ==
  /\ [](highest # U32Zero => (0 \in bitmap /\ ~verify_seqno(Window, highest)))
  /\ [][~U32Lt(highest', highest)]_vars

C30_Witness ==
  /\ op = "decrypt"
  /\ pre.highest = U32(200)
  /\ InSeq = U32(137)
  /\ status = SUCCESS
  /\ highest = U32(200)
  /\ bitmap = {0, 63}

\* strictly ascending sequence of sequence numbers
Ascending(q) == \A i, j \in 1..Len(q) : i < j => U32Lt(q[i], q[j])

\* C31: the sequence number is consumed before any other step of encrypt.
\* Every encrypt call on an SA whose cursor has not cycled draws the next
\* sequence number and advances the cursor by exactly 1, whatever it
\* returns; a call that fails emits nothing, so its number is a gap.  The
\* numbers drawn are strictly ascending, the last one drawn is the cursor,
\* and the numbers of the datagrams emitted are strictly ascending and among
\* those drawn: a number consumed by a failed call is never used again.
C31_SeqnoConsumedFirst ==
  /\ (op = "encrypt" /\ pre.cursor # U32Max)
       => /\ cursor = U32Add(pre.cursor, 1)
          /\ "next_seqno" \in calls
          /\ status \in {SUCCESS, NOT_FOUND, FAILED}
          /\ issued # <<>>
          /\ issued[Len(issued)] = cursor
          /\ emitted = IF status = SUCCESS THEN Append(pre.emitted, cursor)
                       ELSE pre.emitted
  /\ Ascending(issued)
  /\ Ascending(emitted)
  /\ Range(emitted) \subseteq Range(issued)

C31_Witness ==
  /\ op = "encrypt"
  /\ status = SUCCESS
  /\ issued = <<U32(1), U32(2), U32(3)>>
  /\ emitted = <<U32(1), U32(3)>>
  /\ read_uint32(SubSeq(this.packet, 5, 8)) = U32(3)

\* C32: encrypt discards the raw bytes of the container before anything
\* else.  After every encrypt call the raw bytes are a complete datagram
\* (header, IV, the padded plaintext encrypted, ICV) when the call returned
\* SUCCESS and are empty when it returned anything else: because the cursor
\* has cycled, no RNG is available, the IV cannot be filled, the crypter
\* fails or the signer fails; also when the container held a datagram
\* before the call.
C32_RawBytesAfterEncrypt ==
  op = "encrypt" =>
    /\ status = SUCCESS <=> this.packet # <<>>
    /\ status # SUCCESS => this.packet = <<>>
    /\ status = SUCCESS
         => LET payload == IF pre.this.payload.present
                           THEN pre.this.payload.encoding ELSE <<>>
            IN  this.packet
                  = encrypt_datagram(input.spi, cursor, input.env.iv,
                                     encrypt_plaintext(payload,
                                                       pre.this.next_header,
                                                       prim.block_size),
                                     prim.icv_size)

C32_Witness ==
  /\ op = "encrypt"
  /\ pre.op = "encrypt"
  /\ pre.status = SUCCESS
  /\ Len(pre.this.packet) = 8 + prim.iv_size + 4 + prim.icv_size
  /\ input.env.rng = "ok"
  /\ input.env.crypter
  /\ ~input.env.signer
  /\ status = FAILED
  /\ this.packet = <<>>

\* ------------------------------------------- properties of encrypt and decrypt
\* C33: a container made without inner packet has next header 59 and is
\* encrypted with SUCCESS into a datagram whose plaintext has no payload
\* bytes: the pad bytes 1..pad_length with pad_length = block_size -
\* (2 mod block_size), the pad length and next header 59.  The decrypt of
\* that datagram on the matching SA, delivered for the first time, passes
\* the window check, the ICV verification, the decryption and the padding
\* check, and returns PARSE_ERROR with no payload.
C33_EmptyPayload ==
  /\ (op = "encrypt" /\ ~pre.this.payload.present
        /\ input.env \notin EncryptFailures)
       => /\ status = SUCCESS
          /\ pre.this.next_header = IPPROTO_NONE
          /\ EncPadLength = BlockSize - (2 % BlockSize)
          /\ EncPlain = [i \in 1..EncPadLength |-> i]
                          \o <<EncPadLength, IPPROTO_NONE>>
  /\ (op = "decrypt" /\ input.kind = "sent" /\ ~Sent.payload.present
        /\ Sent.seq \notin Range(pre.committed))
       => /\ verify_seqno(PreWindow, InSeq)
          /\ calls = {"signer", "crypter"}
          /\ committed = Append(pre.committed, InSeq)
          /\ check_padding(SubSeq(InPlain, 1, Len(InPlain) - 2))
          /\ InPlain[Len(InPlain)] = IPPROTO_NONE
          /\ status = PARSE_ERROR
          /\ this.payload = NULL

C33_Witness ==
  /\ op = "decrypt"
  /\ input.kind = "sent"
  /\ ~Sent.payload.present
  /\ Sent.next_header = IPPROTO_NONE
  /\ InPlain = <<1, 2, 2, 59>>
  /\ calls = {"signer", "crypter"}
  /\ status = PARSE_ERROR
  /\ highest = InSeq

\* C29: encrypt-then-MAC.  A datagram that encrypt emits holds the header,
\* then the IV the RNG gave, then the padded plaintext encrypted under that
\* IV over exactly its own length, then the ICV computed over exactly the
\* 8 + iv_len + plaintext_len bytes before it, as they stand after the
\* encryption.  decrypt verifies the ICV over the same bytes: every datagram
\* that was emitted passes the verification of the matching SA, so a decrypt
\* of it that reaches the signer goes on to the crypter.
C29_EncryptThenMac ==
  /\ (op = "encrypt" /\ status = SUCCESS)
       => LET payload == IF pre.this.payload.present
                         THEN pre.this.payload.encoding ELSE <<>>
              plaintext == encrypt_plaintext(payload, pre.this.next_header,
                                             BlockSize)
              n == 8 + IvSize + Len(plaintext)
          IN  /\ Len(this.packet) = n + IcvSize
              /\ SubSeq(this.packet, 9, 8 + IvSize) = input.env.iv
              /\ SubSeq(this.packet, 9 + IvSize, n)
                   = crypter_encrypt(plaintext, input.env.iv)
              /\ SubSeq(this.packet, n + 1, n + IcvSize)
                   = signer_get_signature(Take(this.packet, n), IcvSize)
              /\ {"crypter", "signer"} \subseteq calls
  /\ \A m \in sent :
       icv_verified(m.data, decrypt_layout(m.data), WorkingPrimitives)
  /\ (op = "decrypt" /\ input.kind = "sent" /\ "signer" \in calls)
       => "crypter" \in calls

C29_Witness ==
  /\ op = "decrypt"
  /\ input.kind = "sent"
  /\ calls = {"signer", "crypter"}
  /\ status = SUCCESS
  /\ Sent.spi = Spi2
  /\ Sent.next_header = IPPROTO_IPIP
  /\ icv_verified(In, decrypt_layout(In), WorkingPrimitives)

\* ------------------------------------------------- properties of the container
\* the container the last operation of SpecCont was called on, now and when
\* it was called
Target == cont[input.target]

PreTarget == pre.cont[input.target]

\* the other container of the caller
Other(c) == 3 - c

\* what the accessors of container c return, given the containers cc and the
\* inner packets h; for the payload, the inner packet it refers to
Observe(cc, h, c) ==
  [data |-> get_data(cc[c]),
   source |-> get_source(cc[c]),
   destination |-> get_destination(cc[c]),
   next_header |-> get_next_header(cc[c]),
   payload |-> IF get_payload(cc[c]) = 0 THEN <<>>
               ELSE <<h[get_payload(cc[c])]>>]

\* C21: get_payload returns none on a container that has just been made
\* from a received packet, and after every decrypt call that returned a
\* status other than SUCCESS, also when the container held a decoded payload
\* before the call.
C21_NoPayloadUnlessSuccess ==
  /\ op = "from_packet" => get_payload(Target) = 0
  /\ (op = "decrypt" /\ status # SUCCESS) => get_payload(Target) = 0

C21_Witness ==
  /\ op = "decrypt"
  /\ status = VERIFY_ERROR
  /\ pre.op = "decrypt"
  /\ pre.status = SUCCESS
  /\ get_payload(PreTarget) # 0
  /\ get_next_header(PreTarget) = 17
  /\ get_payload(Target) = 0

\* C23: a container made from an inner packet has next header 4 when the
\* version of the packet is 4 and 41 otherwise; one made without an inner
\* packet, or from received bytes, has 59.  encrypt writes the next header
\* of the container as the last byte of the plaintext.  A decrypt that
\* returns SUCCESS reports the last byte of the plaintext as it is, whatever
\* its value.
C23_NextHeader ==
  /\ op = "from_payload"
       => get_next_header(Target)
            = IF get_payload(Target) = 0 THEN 59
              ELSE IF ips[get_payload(Target)].version = 4 THEN 4
              ELSE 41
  /\ op = "from_packet" => get_next_header(Target) = 59
  /\ (op = "encrypt" /\ status = SUCCESS)
       => /\ EncPlain[Len(EncPlain)] = get_next_header(PreTarget)
          /\ get_next_header(Target) = get_next_header(PreTarget)
  /\ (op = "decrypt" /\ status = SUCCESS)
       => get_next_header(Target) = InPlain[Len(InPlain)]

C23_Witness ==
  /\ op = "decrypt"
  /\ status = SUCCESS
  /\ In = NhDatagram(U32(1), 255)
  /\ get_next_header(PreTarget) = 59
  /\ get_next_header(Target) = 255
  /\ ips[get_payload(Target)].version = 4

\* C24: extract_payload returns the inner packet the container holds, or
\* none, and leaves the container with none; it changes neither the raw
\* bytes nor the endpoints nor the next header, and destroys nothing.  A
\* container without payload gets one only from a decrypt that returns
\* SUCCESS.  A packet that was extracted belongs to no container, and no
\* operation on a container, destroy included, destroys it.
C24_ExtractPayload ==
  /\ op = "extract_payload"
       => /\ extracted = pre.extracted \cup ({get_payload(PreTarget)} \ {0})
          /\ get_payload(Target) = 0
          /\ get_data(Target) = get_data(PreTarget)
          /\ get_source(Target) = get_source(PreTarget)
          /\ get_destination(Target) = get_destination(PreTarget)
          /\ get_next_header(Target) = get_next_header(PreTarget)
          /\ ips = pre.ips
  /\ \A c \in Conts :
       (/\ cont[c].state = "live"
        /\ pre.cont[c].state = "live"
        /\ get_payload(pre.cont[c]) = 0
        /\ get_payload(cont[c]) # 0)
         => (op = "decrypt" /\ status = SUCCESS /\ input.target = c)
  /\ \A i \in extracted :
       /\ ips[i].alive
       /\ \A c \in Conts :
            cont[c].state = "live" => get_payload(cont[c]) # i

C24_Witness ==
  /\ op = "destroy"
  /\ pre.op = "extract_payload"
  /\ input.target = 1
  /\ pre.cont[2].state = "none"
  /\ get_next_header(PreTarget) = 17
  /\ extracted = {1}
  /\ ips[1].alive

\* C25: clone is deep.  The clone and the original return equal raw bytes,
\* endpoints, next header and payload, the payload of the clone being none
\* exactly when that of the original is, and an inner packet of its own
\* otherwise.  As long as both exist, no operation on one of them (set_data,
\* skip_bytes, encrypt, decrypt, extract_payload, destroy) changes what the
\* accessors of the other return.
C25_CloneDeep ==
  /\ op = "clone"
       => /\ Observe(cont, ips, 2) = Observe(cont, ips, 1)
          /\ Observe(cont, ips, 1) = Observe(pre.cont, pre.ips, 1)
          /\ get_payload(cont[2]) = 0 <=> get_payload(cont[1]) = 0
          /\ get_payload(cont[1]) # 0
               => /\ get_payload(cont[2]) # get_payload(cont[1])
                  /\ ips[get_payload(cont[2])].alive
  /\ (/\ op \in {"set_data", "skip_bytes", "encrypt", "decrypt",
                 "extract_payload", "destroy"}
      /\ pre.cont[1].state = "live"
      /\ pre.cont[2].state = "live")
       => Observe(cont, ips, Other(input.target))
            = Observe(pre.cont, pre.ips, Other(input.target))

C25_Witness ==
  /\ op = "destroy"
  /\ input.target = 1
  /\ pre.op = "clone"
  /\ get_payload(PreTarget) # 0
  /\ get_next_header(PreTarget) = 17
  /\ cont[2].state = "live"
  /\ get_payload(cont[2]) # 0
  /\ ips[get_payload(cont[2])].alive
  /\ ~ips[get_payload(PreTarget)].alive

\* ------------------------------------------------------------ properties
\* of the byte readers
\* C36: every byte reader that decrypt or remove_padding creates is
\* destroyed on each return path of the function that created it, the
\* PARSE_ERROR return of decrypt for a datagram whose header, IV or ICV
\* cannot be read or whose ciphertext is not a whole number of blocks
\* included: after any number of decrypt calls no reader is alive.
C36_ReadersDestroyed == readers = 0

\* ------------------------------------------------------------ libimcv
\* refcount_t is an unsigned 32-bit counter
\* ref_get
ref_get(ref) == U32Add(ref, 1)

\* ref_put: the counter is decreased; last tells that no reference is left
ref_put(ref) ==
  LET left == IF ref = U32Zero THEN U32Max ELSE U32Sub(ref, 1)
  IN  [ref |-> left, last |-> ~U32Lt(U32Zero, left)]

\* What libimcv and the library under it are made of: lib tells whether the
\* library object exists, pa_tnc is the PA-TNC attribute manager ("none"
\* before the first one is created, then "live" or "destroyed").  A call
\* records in ret what it returned and in library_init and library_deinit
\* whether it called them.
\*
\* The environment of a libimcv_init call: env.library_init is "ok", or
\* tells that library_init fails and whether it leaves the library object
\* behind ("failed", "failed_lib_set"); env.load tells whether the plugins
\* load.

\* libimcv_init taking no reference in the name of the main program
libimcv_init_no_host_ref(st, env) ==
  LET called(lib, init, deinit) ==
        [st EXCEPT !.lib = lib, !.ret = FALSE, !.library_init = init,
                   !.library_deinit = deinit]
  IN  IF ~st.lib /\ env.library_init # "ok"
      THEN called(env.library_init = "failed_lib_set", TRUE, FALSE)
      ELSE IF ~st.lib /\ ~env.load
      THEN called(FALSE, TRUE, TRUE)
      ELSE [st EXCEPT !.lib = TRUE,
                      !.libstrongswan_ref = ref_get(@),
                      !.pa_tnc = IF st.libimcv_ref = U32Zero THEN "live" ELSE @,
                      !.libimcv_ref = ref_get(@),
                      !.ret = TRUE,
                      !.library_init = ~st.lib,
                      !.library_deinit = FALSE]

\* libimcv_init: when the library exists and libimcv holds no reference to
\* it, the main program has initialized it and one reference is taken in
\* its name; when the library does not exist, libimcv initializes it and
\* loads the plugins, and gives up when either fails
libimcv_init(st, env) ==
  LET called(lib, init, deinit) ==
        [st EXCEPT !.lib = lib, !.ret = FALSE, !.library_init = init,
                   !.library_deinit = deinit]
      held == IF st.lib /\ st.libstrongswan_ref = U32Zero
              THEN ref_get(st.libstrongswan_ref)
              ELSE st.libstrongswan_ref
  IN  IF ~st.lib /\ env.library_init # "ok"
      THEN called(env.library_init = "failed_lib_set", TRUE, FALSE)
      ELSE IF ~st.lib /\ ~env.load
      THEN called(FALSE, TRUE, TRUE)
      ELSE [st EXCEPT !.lib = TRUE,
                      !.libstrongswan_ref = ref_get(held),
                      !.pa_tnc = IF st.libimcv_ref = U32Zero THEN "live" ELSE @,
                      !.libimcv_ref = ref_get(@),
                      !.ret = TRUE,
                      !.library_init = ~st.lib,
                      !.library_deinit = FALSE]

\* libimcv_deinit: the attribute manager is destroyed with the last
\* reference to libimcv, the library with the last reference to it
libimcv_deinit(st) ==
  LET own == ref_put(st.libimcv_ref)
      under == ref_put(st.libstrongswan_ref)
  IN  [st EXCEPT !.libimcv_ref = own.ref,
                 !.pa_tnc = IF own.last /\ @ # "none" THEN "destroyed"
                            ELSE @,
                 !.libstrongswan_ref = under.ref,
                 !.lib = IF under.last THEN FALSE ELSE @,
                 !.ret = TRUE,
                 !.library_init = FALSE,
                 !.library_deinit = under.last]

\* ------------------------------------------------------------ SpecImcv
\* A program that uses libimcv: it starts with or without having
\* initialized the library itself, then calls libimcv_init and
\* libimcv_deinit, the latter only to match a libimcv_init that returned
\* TRUE.  Beside the state of libimcv, imcv records the history: host (the
\* main program has initialized the library), inits and deinits (the calls
\* of libimcv_init that returned TRUE, the calls of libimcv_deinit), own
\* (the library that exists was initialized by libimcv_init),
\* library_deinits (the calls of library_deinit so far), n (the calls so
\* far), op (the last call) and was (own and pa_tnc when it was made).
MaxImcvOps == 6

EspVars ==
  <<this, highest, bitmap, cursor, op, status, calls, input, pre, before,
    committed, okData, sent, thr, ops, prim, freed, issued, emitted, hdr,
    pending, cont, ips, extracted, readers>>

InitEnvs ==
  [library_init : {"ok", "failed", "failed_lib_set"}, load : BOOLEAN]

\* the main program starts
ImcvStart ==
  /\ imcv = NotLoaded
  /\ \E h \in BOOLEAN :
       imcv' = [state |-> "run", lib |-> h, libstrongswan_ref |-> U32Zero,
                libimcv_ref |-> U32Zero, pa_tnc |-> "none", ret |-> TRUE,
                library_init |-> FALSE, library_deinit |-> FALSE,
                host |-> h, inits |-> 0, deinits |-> 0, own |-> FALSE,
                library_deinits |-> 0, n |-> 0, op |-> "start",
                was |-> [own |-> FALSE, pa_tnc |-> "none"]]
  /\ UNCHANGED <<EspVars, dyn>>

\* what a call that leaves libimcv as st records
ImcvCalled(name, st) ==
  imcv' = [st EXCEPT
             !.op = name,
             !.n = @ + 1,
             !.inits = IF name = "libimcv_init" /\ st.ret THEN @ + 1 ELSE @,
             !.deinits = IF name = "libimcv_deinit" THEN @ + 1 ELSE @,
             !.own = IF st.library_deinit THEN FALSE
                     ELSE IF st.library_init /\ st.ret THEN TRUE
                     ELSE @,
             !.library_deinits = IF st.library_deinit THEN @ + 1 ELSE @,
             !.was = [own |-> imcv.own, pa_tnc |-> imcv.pa_tnc]]

ImcvInit ==
  /\ imcv.state = "run"
  /\ imcv.n < MaxImcvOps
  /\ \E e \in InitEnvs : ImcvCalled("libimcv_init", libimcv_init(imcv, e))
  /\ UNCHANGED <<EspVars, dyn>>

ImcvDeinit ==
  /\ imcv.state = "run"
  /\ imcv.n < MaxImcvOps
  /\ imcv.inits > imcv.deinits
  /\ ImcvCalled("libimcv_deinit", libimcv_deinit(imcv))
  /\ UNCHANGED <<EspVars, dyn>>

NextImcv == ImcvStart \/ ImcvInit \/ ImcvDeinit

SpecImcv == Init /\ [][NextImcv]_vars

Keys == {<<"AF_INET", 500>>, <<"AF_INET", 4500>>}

\* A descriptor is an index into socks, the sockets open_socket has made:
\* each is a record of its key, whether it is open, whether find_socket has
\* put it into the table and whether find_socket has written the notify
\* byte for it.  sockets is the table, 0 standing for no entry; notify is
\* the number of bytes in the notify pipe; arrived are the descriptors on
\* which a datagram waits, returned those of which receive has returned a
\* datagram.

\* hashtable get
sockets_get(table, key) == table[key]

\* hashtable put: an entry with an equal key is replaced
sockets_put(table, key, fd) == [table EXCEPT ![key] = fd]

\* build_fds: the descriptors of the table at the time of the call; the
\* reading end of the notify pipe is always part of the set
build_fds(table) == {table[k] : k \in Keys} \ {0}

\* scan_fds: the table entries whose descriptor is in the set select has
\* returned, of which the enumeration gives the first
scan_fds(table, ready) == {table[k] : k \in Keys} \cap ready

\* the sender threads are Threads; a sender that is in no call
SndIdle == [pc |-> "idle", key |-> <<"none", 0>>, fd |-> 0]

\* a receiver that is in no call
RcvIdle == [pc |-> "idle", fds |-> {}, ready |-> {}]

\* socket_dynamic_socket_create
socket_dynamic_socket_create ==
  [state |-> "run",
   sockets |-> [k \in Keys |-> 0],
   socks |-> <<>>,
   notify |-> 0,
   snd |-> [t \in Threads |-> SndIdle],
   rcv |-> RcvIdle,
   arrived |-> {},
   returned |-> {},
   n |-> 0]

\* ------------------------------------------------------------ SpecSock
\* Sender threads and one receiver thread on one dynamic socket.  A step of
\* a thread is what it does under one lock, or one system call.
MaxSockOps == 3

SockUnchanged == UNCHANGED <<EspVars, imcv>>

SockCreate ==
  /\ dyn = NoSocket
  /\ dyn' = socket_dynamic_socket_create
  /\ SockUnchanged

\* sender, find_socket: the lookup under the read lock
SndLookup(t) ==
  /\ dyn.state = "run"
  /\ dyn.n < MaxSockOps
  /\ dyn.snd[t].pc = "idle"
  /\ \E k \in Keys :
       LET skt == sockets_get(dyn.sockets, k)
       IN  dyn' = [dyn EXCEPT
                     !.n = @ + 1,
                     !.snd[t] = IF skt # 0
                                THEN [pc |-> "sendmsg", key |-> k,
                                      fd |-> skt]
                                ELSE [pc |-> "open_socket", key |-> k,
                                      fd |-> 0]]
  /\ SockUnchanged

\* find_socket: open_socket, which makes a socket, sets SO_REUSEADDR and
\* binds it; it fails or returns a new descriptor
SndOpenSocket(t) ==
  /\ dyn.state = "run"
  /\ dyn.snd[t].pc = "open_socket"
  /\ \E ok \in BOOLEAN :
       dyn' = IF ok
              THEN [dyn EXCEPT
                      !.socks = Append(@, [key |-> dyn.snd[t].key,
                                           open |-> TRUE, put |-> FALSE,
                                           notified |-> FALSE]),
                      !.snd[t].pc = "put",
                      !.snd[t].fd = Len(dyn.socks) + 1]
              ELSE [dyn EXCEPT !.snd[t] = SndIdle]
  /\ SockUnchanged

\* find_socket: the insertion under the write lock; what put returns is
\* not looked at
SndPut(t) ==
  /\ dyn.state = "run"
  /\ dyn.snd[t].pc = "put"
  /\ dyn' = [dyn EXCEPT
               !.sockets = sockets_put(@, dyn.snd[t].key, dyn.snd[t].fd),
               !.socks[dyn.snd[t].fd].put = TRUE,
               !.snd[t].pc = "notify"]
  /\ SockUnchanged

\* find_socket: the byte written to the notify pipe
SndNotify(t) ==
  /\ dyn.state = "run"
  /\ dyn.snd[t].pc = "notify"
  /\ dyn' = [dyn EXCEPT
               !.notify = @ + 1,
               !.socks[dyn.snd[t].fd].notified = TRUE,
               !.snd[t].pc = "sendmsg"]
  /\ SockUnchanged

\* sender: sendmsg on the socket find_socket has returned
SndSendmsg(t) ==
  /\ dyn.state = "run"
  /\ dyn.snd[t].pc = "sendmsg"
  /\ dyn' = [dyn EXCEPT !.snd[t] = SndIdle]
  /\ SockUnchanged

\* a datagram arrives on a socket that is open
Arrive ==
  /\ dyn.state = "run"
  /\ \E fd \in 1..Len(dyn.socks) :
       /\ dyn.socks[fd].open
       /\ fd \notin dyn.arrived
       /\ dyn' = [dyn EXCEPT !.arrived = @ \cup {fd}]
  /\ SockUnchanged

\* receiver: build_fds, at the call and on each turn of the loop
RcvBuildFds ==
  /\ dyn.state = "run"
  /\ dyn.rcv.pc \in {"idle", "build_fds"}
  /\ dyn' = [dyn EXCEPT !.rcv = [pc |-> "select",
                                 fds |-> build_fds(dyn.sockets),
                                 ready |-> {}]]
  /\ SockUnchanged

\* receiver: select returns once the notify pipe or a descriptor of the set
\* is readable; a byte in the pipe is read and the loop starts over
RcvSelect ==
  /\ dyn.state = "run"
  /\ dyn.rcv.pc = "select"
  /\ dyn.notify > 0 \/ dyn.rcv.fds \cap dyn.arrived # {}
  /\ dyn' = IF dyn.notify > 0
            THEN [dyn EXCEPT !.notify = @ - 1,
                             !.rcv = [pc |-> "build_fds", fds |-> {},
                                      ready |-> {}]]
            ELSE [dyn EXCEPT !.rcv.pc = "scan_fds",
                             !.rcv.ready = dyn.rcv.fds \cap dyn.arrived]
  /\ SockUnchanged

\* receiver: select fails and receiver returns FAILED
RcvSelectFails ==
  /\ dyn.state = "run"
  /\ dyn.rcv.pc = "select"
  /\ dyn' = [dyn EXCEPT !.rcv = RcvIdle]
  /\ SockUnchanged

\* receiver: scan_fds under the read lock, then receive_packet on the
\* socket selected, which takes the datagram and returns it, or NULL when
\* it cannot be read; with none selected the loop starts over
RcvScanFds ==
  /\ dyn.state = "run"
  /\ dyn.rcv.pc = "scan_fds"
  /\ LET found == scan_fds(dyn.sockets, dyn.rcv.ready)
     IN  IF found = {}
         THEN dyn' = [dyn EXCEPT !.rcv = [pc |-> "build_fds", fds |-> {},
                                          ready |-> {}]]
         ELSE \E fd \in found : \E ok \in BOOLEAN :
                dyn' = [dyn EXCEPT !.rcv = RcvIdle,
                                   !.arrived = @ \ {fd},
                                   !.returned = IF ok THEN @ \cup {fd}
                                                ELSE @]
  /\ SockUnchanged

\* destroy, called when no sender is in a call and the receiver has been
\* cancelled: the descriptors of the table entries are closed
SockDestroy ==
  /\ dyn.state = "run"
  /\ \A t \in Threads : dyn.snd[t].pc = "idle"
  /\ dyn' = [dyn EXCEPT
               !.state = "destroyed",
               !.socks = [fd \in DOMAIN @ |->
                            IF fd \in build_fds(dyn.sockets)
                            THEN [@[fd] EXCEPT !.open = FALSE]
                            ELSE @[fd]],
               !.sockets = [k \in Keys |-> 0],
               !.rcv = RcvIdle,
               !.arrived = {}]
  /\ SockUnchanged

NextSock ==
  \/ SockCreate
  \/ \E t \in Threads : SndLookup(t)
  \/ \E t \in Threads : SndOpenSocket(t)
  \/ \E t \in Threads : SndPut(t)
  \/ \E t \in Threads : SndNotify(t)
  \/ \E t \in Threads : SndSendmsg(t)
  \/ Arrive
  \/ RcvBuildFds
  \/ RcvSelect
  \/ RcvSelectFails
  \/ RcvScanFds
  \/ SockDestroy

SpecSock == Init /\ [][NextSock]_vars

\* ------------------------------------------------------------ properties
\* of the dynamic socket
\* the descriptors of the sockets that are open
Open == {fd \in 1..Len(dyn.socks) : dyn.socks[fd].open}

\* C34: under every interleaving of sender calls, at most one socket is
\* open per key, and every socket that find_socket has put into the table
\* stays in the table as long as it is open; after destroy no socket is
\* open.  (The table is a function of the key, so it holds at most one
\* entry per key.)
C34_OneSocketPerKey ==
  dyn.state # "none"
    => /\ \A a, b \in Open : dyn.socks[a].key = dyn.socks[b].key => a = b
       /\ \A fd \in Open :
            dyn.socks[fd].put /\ dyn.state = "run"
              => sockets_get(dyn.sockets, dyn.socks[fd].key) = fd
       /\ dyn.state = "destroyed" => Open = {}

\* C35: a socket for which find_socket has written the notify byte is part
\* of the descriptor set of the receiver once the receiver has read the
\* bytes written and is in select again, so that a datagram that arrives on
\* it makes select return.
C35_WakeUp ==
  (/\ dyn.state = "run"
   /\ dyn.rcv.pc = "select"
   /\ dyn.notify = 0)
    => \A fd \in Open : dyn.socks[fd].notified => fd \in dyn.rcv.fds

====
